---------------------------- MODULE Spec2Model ----------------------------
(***************************************************************************)
(* Request-admission and guardrail subsystem of the career_agent service.  *)
(*                                                                         *)
(* The module models                                                       *)
(*   - the three before-model interceptors of setup/guardrails.py          *)
(*     (QueryGuard, TokenGuard, RateLimiter) and its FunctionGuard,        *)
(*   - the before_model_callback lists of agents/team.py and the way a     *)
(*     list of callbacks is run before a model call (in order, the first   *)
(*     non-None result replaces the model's reply),                        *)
(*   - the /chat and DELETE /session handlers of api.py.                   *)
(*                                                                         *)
(* Time is counted in ticks, TicksPerSecond ticks to the second, so that   *)
(* fractional readings of time.time() exist in the model.  Texts are       *)
(* sequences of one-character strings.                                     *)
(***************************************************************************)
EXTENDS Integers, Sequences, FiniteSets, TLC

(***************************************************************************)
(* Bounds of the model.                                                    *)
(***************************************************************************)
NumProcs == 2          \* concurrent request coroutines
MaxTime == 5           \* last clock reading, in ticks
MaxInspections == 4    \* LLM turns started over one behaviour
MaxRequests == 2       \* largest RateLimiter quota drawn
MaxWindow == 2         \* largest RateLimiter window drawn, in seconds
TicksPerSecond == 2    \* clock resolution
MaxTok == 2            \* largest token ceiling drawn for the TokenGuard unit
MaxDeletes == 2        \* DELETE /session requests over one behaviour

Procs == 1..NumProcs

(***************************************************************************)
(* Texts.                                                                  *)
(***************************************************************************)
LowerCase == <<"a","b","c","d","e","f","g","h","i","j","k","l","m",
               "n","o","p","q","r","s","t","u","v","w","x","y","z">>
UpperCase == <<"A","B","C","D","E","F","G","H","I","J","K","L","M",
               "N","O","P","Q","R","S","T","U","V","W","X","Y","Z">>

UpperTable ==
    [c \in {LowerCase[i] : i \in 1..Len(LowerCase)} |->
        UpperCase[CHOOSE i \in 1..Len(LowerCase) : LowerCase[i] = c]]

\* str.upper() on one character
UpperChar(c) == IF c \in DOMAIN UpperTable THEN UpperTable[c] ELSE c

\* the text compared as written, case kept
Upper_AsIs(s) == s

LowerTable ==
    [c \in {UpperCase[i] : i \in 1..Len(UpperCase)} |->
        LowerCase[CHOOSE i \in 1..Len(UpperCase) : UpperCase[i] = c]]

\* str.lower() on one character
LowerChar(c) == IF c \in DOMAIN LowerTable THEN LowerTable[c] ELSE c

\* str.lower()
Lower(s) == [i \in 1..Len(s) |-> LowerChar(s[i])]

\* str.upper()
Upper(s) == [i \in 1..Len(s) |-> UpperChar(s[i])]

\* the Python expression  kw in text  (substring test)
Contains(text, kw) ==
    LET t == text
        k == kw
    IN  \E i \in 0..(Len(t) - Len(k)) :
            \A j \in 1..Len(k) : t[i + j] = k[j]

\* "x" * n
Repeat(c, n) == [i \in 1..n |-> c]

(***************************************************************************)
(* State.                                                                  *)
(***************************************************************************)
VARIABLES
    \* configuration, fixed at construction
    max_requests,                \* RateLimiter.max_requests
    time_window,                 \* RateLimiter.time_window, seconds
    max_tokens,                  \* TokenGuard.max_tokens
    document_upload_max_tokens,  \* TokenGuard.document_upload_max_tokens
    blocked_words,               \* QueryGuard.blocked_words
    blocked_params,              \* FunctionGuard.blocked_params
    before_model_callback,       \* agent name -> sequence of guard names
    \* mutable state of the guards
    requests,                    \* RateLimiter.requests, oldest first
    lock,                        \* holder of RateLimiter.lock, or NoHolder
    waiters,                     \* coroutines queued on RateLimiter.lock
    is_document_upload,          \* TokenGuard.is_document_upload
    \* environment
    clock,                       \* time.time(), in ticks
    \* per request coroutine
    pc,                          \* position of the coroutine
    agent,                       \* agent whose model call is being prepared
    idx,                         \* next entry of the callback list to run
    now,                         \* local `now` of RateLimiter.__call__
    contents,                    \* llm_request.contents
    isDoc,                       \* ChatRequest.is_document_upload
    reply,                       \* result of the callback that ended the turn
    ran,                         \* guards invoked before the current model call
    modelAt,                     \* clock readings at which this request reached a model
    user_id,                     \* ChatRequest.user_id
    session_id,                  \* ChatRequest.session_id, then the id in use
    \* state of the HTTP layer
    sessions,                    \* api.sessions: the session keys that have a runner
    service,                     \* sessions held by the InMemorySessionService
    response,                    \* HTTP response of POST /chat, per request
    delete_response,             \* HTTP response of the latest DELETE /session
    \* a tool call put before the FunctionGuard
    function_call,               \* the call: its name and arguments
    fnpc,                        \* position of FunctionGuard.__call__
    allowed,                     \* its return value
    \* the user-memory store of agents/functions.py
    memory_store,                \* _MEMORY_STORE: user id -> stored profile
    memory_call,                 \* the latest call on the store and its result
    \* observation of the rate limiter's decisions
    last,                        \* the latest decision of RateLimiter.__call__
    nInsp,                       \* number of LLM turns started
    nDecided,                    \* number of RateLimiter decisions taken
    firstAt,                     \* `now` of the first RateLimiter decision
    nAdmitted,                   \* number of requests RateLimiter admitted
    rejections                   \* the refusals since the latest admission

cfgVars == <<max_requests, time_window, max_tokens, document_upload_max_tokens,
             blocked_words, blocked_params, before_model_callback>>
fnVars == <<function_call, fnpc, allowed>>
httpVars == <<response, delete_response>>
memVars == <<memory_store, memory_call>>
rlVars == <<requests, lock, waiters>>
obsVars == <<last, nDecided, firstAt, nAdmitted, rejections>>
apiVars == <<user_id, session_id, sessions, service>>
vars == <<max_requests, time_window, max_tokens, document_upload_max_tokens,
          blocked_words, before_model_callback, requests, lock, waiters,
          is_document_upload, clock, pc, agent, idx, now, contents, isDoc,
          reply, ran, modelAt, user_id, session_id, sessions, service,
          last, nInsp, nDecided, firstAt, nAdmitted, blocked_params,
          function_call, fnpc, allowed, response, delete_response,
          rejections, memory_store, memory_call>>

NoHolder == 0

\* an absent (None) or empty identifier
NoId == <<>>

\* no HTTP response sent yet
NoResponse == [status |-> 0, response |-> ""]
\* the DELETE requests answered so far, the key of the latest one and its
\* answer
NoDeleteResponse == [n |-> 0, session_key |-> <<>>, status |-> 0, message |-> ""]

\* no rules (an empty dict), no tool call
NoRules == <<>>
NoCall == [name |-> "", arguments |-> <<>>]

(***************************************************************************)
(* Results of an interceptor: None, or an LlmResponse carrying the text of *)
(* the refusal (kept as its variable parts), or an exception.              *)
(***************************************************************************)
Result(kind, by, kw, limit, query_type, wait) ==
    [kind |-> kind, by |-> by, kw |-> kw, limit |-> limit,
     query_type |-> query_type, wait |-> wait]

None == Result("None", "", <<>>, 0, "", 0)
Pending == Result("Pending", "", <<>>, 0, "", 0)

NoDecision == [proc |-> 0, now |-> 0, pre |-> <<>>, post |-> <<>>,
               outcome |-> "none", wait |-> 0]


(***************************************************************************)
(* The text the guards inspect: the newest entry of llm_request.contents   *)
(* with role "user", parts, and a non-empty parts[0].text; "" if none.     *)
(* An entry is [role, parts], parts a sequence of texts.                   *)
(***************************************************************************)
RECURSIVE ScanBack(_, _)
ScanBack(c, i) ==
    IF i = 0 THEN <<>>
    ELSE IF c[i].role = "user" /\ c[i].parts # <<>> /\ c[i].parts[1] # <<>>
         THEN c[i].parts[1]
         ELSE ScanBack(c, i - 1)

\* the newest entry taken whatever its role
LatestUserText_AnyRole(c) ==
    IF c # <<>> /\ c[Len(c)].parts # <<>> THEN c[Len(c)].parts[1] ELSE <<>>

\* lines 75-81 and 149-155
LatestUserText(c) == ScanBack(c, Len(c))

\* the contents query_agent builds for one chat message
UserTurn(text) == <<[role |-> "user", parts |-> <<text>>]>>

(***************************************************************************)
(* QueryGuard.__call__                                                     *)
(***************************************************************************)
RECURSIVE FirstBlocked(_, _, _)
FirstBlocked(words, text, i) ==
    IF i > Len(words) THEN None
    ELSE IF Contains(Upper(text), Upper(words[i]))
         THEN Result("Rejection", "QueryGuard", words[i], 0, "", 0)
         ELSE FirstBlocked(words, text, i + 1)

\* the blocked words tried from the end of the list
QueryGuardCall_LastFirst(words, c) ==
    FirstBlocked([i \in 1..Len(words) |-> words[Len(words) + 1 - i]],
                 LatestUserText(c), 1)

\* lines 75-98: the first blocked word, in list order, found in the text
QueryGuardCall(words, c) == FirstBlocked(words, LatestUserText(c), 1)

(***************************************************************************)
(* TokenGuard.__call__                                                     *)
(***************************************************************************)
chars_per_token == 4

\* the direct-message ceiling applied whatever the mode
TokenLimit_AlwaysDirect(flag, direct, upload) == direct

TokenLimit(flag, direct, upload) == IF flag THEN upload ELSE direct

EstimatedTokens(text) == Len(text) \div chars_per_token

\* the ceiling test written with >= instead of >
Exceeds_Inclusive(estimated, token_limit) == estimated >= token_limit

Exceeds(estimated, token_limit) == estimated > token_limit

TokenGuardCall(c, flag, direct, upload) ==
    LET token_limit == TokenLimit(flag, direct, upload)
        estimated_tokens == EstimatedTokens(LatestUserText(c))
    IN  IF Exceeds(estimated_tokens, token_limit)
        THEN Result("Rejection", "TokenGuard", <<>>, token_limit,
                    IF flag THEN "document upload" ELSE "direct message", 0)
        ELSE None

(***************************************************************************)
(* RateLimiter.__call__, the pure parts                                    *)
(***************************************************************************)
\* the comparison of the trim loop written with < instead of <=
Stale_Strict(t, n, window) == t < n - window * TicksPerSecond

\* a stored timestamp t is outside the window at time n
Stale(t, n, window) == t <= n - window * TicksPerSecond

\* while self.requests and self.requests[0] <= now - self.time_window: popleft()
RECURSIVE TrimStale(_, _, _)
TrimStale(reqs, n, window) ==
    IF reqs # <<>> /\ Stale(reqs[1], n, window)
    THEN TrimStale(Tail(reqs), n, window)
    ELSE reqs

\* the quota test written with > instead of >=
QuotaReached_OffByOne(reqs, quota) == Len(reqs) > quota

\* if len(self.requests) >= self.max_requests
QuotaReached(reqs, quota) == Len(reqs) >= quota

\* int(x) for x = ticks / TicksPerSecond: truncation toward zero
IntOfTicks(ticks) ==
    IF ticks >= 0 THEN ticks \div TicksPerSecond
    ELSE -((-ticks) \div TicksPerSecond)

\* the wait computed without the one-second pad
WaitTime_NoPad(window, n, oldest) ==
    IntOfTicks(window * TicksPerSecond - (n - oldest))

\* int(self.time_window - (now - oldest_request) + 1)
WaitTime(window, n, oldest) ==
    IntOfTicks(window * TicksPerSecond - (n - oldest) + TicksPerSecond)

\* the critical section entered without taking notice of the lock
CanAcquire_NoMutex == TRUE

\* async with self.lock: the lock is taken at once only if it is free and
\* nobody queues for it
CanAcquire == lock = NoHolder /\ waiters = <<>>

(***************************************************************************)
(* FunctionGuard.__call__.  blocked_params maps a function name to its     *)
(* param_rules, which map a parameter name to a list of blocked values; a  *)
(* call is [name, arguments], arguments mapping parameter names to values; *)
(* a value - an argument's or a blocked one - is [str, v]: whether it is a  *)
(* Python str, and its text (for another type, how it is written).         *)
(***************************************************************************)
\* a value that contains a blocked value is blocked
IsBlockedValue_Substring(param_value, blocked_values) ==
    /\ param_value.str
    /\ \E i \in 1..Len(blocked_values) :
           Contains(Lower(param_value.v), Lower(blocked_values[i].v))

\* isinstance(param_value, str) and
\* param_value.lower() in [v.lower() for v in blocked_values]
IsBlockedValue(param_value, blocked_values) ==
    /\ param_value.str
    /\ \E i \in 1..Len(blocked_values) :
           Lower(param_value.v) = Lower(blocked_values[i].v)

\* [v.lower() for v in blocked_values] is built only for a string argument
\* and raises AttributeError on a blocked value that is not a string
LowerRaises(param_value, blocked_values) ==
    /\ param_value.str
    /\ \E i \in 1..Len(blocked_values) : ~blocked_values[i].str

\* the constrained parameters of the called function present in the call
Constrained(rules, call) ==
    IF call.name \in DOMAIN rules
    THEN DOMAIN rules[call.name] \cap DOMAIN call.arguments
    ELSE {}

\* the type test of line 333 left out
FunctionGuardCall_NoTypeTest(rules, call) ==
    ~ \E param \in Constrained(rules, call) :
          \E i \in 1..Len(rules[call.name][param]) :
              Lower(call.arguments[param].v)
                  = Lower(rules[call.name][param][i].v)

FunctionGuardCall(rules, call) ==
    LET function_name == call.name
        arguments == call.arguments
    IN  IF function_name \in DOMAIN rules
        THEN LET param_rules == rules[function_name]
             IN  ~ \E param \in DOMAIN param_rules :
                       /\ param \in DOMAIN arguments
                       /\ IsBlockedValue(arguments[param], param_rules[param])
        ELSE TRUE

\* The parameters are visited in the order of the rules' dict: the call
\* ends at the first one that blocks (False) or whose list raises.
CallFunctionGuard ==
    /\ fnpc = "idle"
    /\ function_call # NoCall
    /\ LET inspected == Constrained(blocked_params, function_call)
           param_rules == blocked_params[function_call.name]
           raisers == {param \in inspected :
                          LowerRaises(function_call.arguments[param],
                                      param_rules[param])}
           blockers == {param \in inspected \ raisers :
                           IsBlockedValue(function_call.arguments[param],
                                          param_rules[param])}
       IN  IF raisers = {}
           THEN /\ allowed' = FunctionGuardCall(blocked_params, function_call)
                /\ fnpc' = "returned"
           ELSE \E first \in raisers \cup blockers :
                    IF first \in raisers
                    THEN fnpc' = "raised" /\ UNCHANGED allowed
                    ELSE fnpc' = "returned" /\ allowed' = FALSE
    /\ UNCHANGED <<cfgVars, memVars, httpVars, apiVars, rlVars, obsVars, function_call,
                   is_document_upload, clock, pc, agent, idx, now, contents,
                   isDoc, reply, ran, modelAt, nInsp>>

(***************************************************************************)
(* Running a before_model_callback list: the callbacks run in list order,  *)
(* the first result that is not None ends the turn and is the reply.       *)
(***************************************************************************)
Reverse(q) == [i \in 1..Len(q) |-> q[Len(q) + 1 - i]]

\* the callbacks run last to first
Chain_Reversed(p) == Reverse(before_model_callback[agent[p]])

Chain(p) == before_model_callback[agent[p]]

AtCallback(p, name) ==
    /\ pc[p] = "callbacks"
    /\ idx[p] <= Len(Chain(p))
    /\ Chain(p)[idx[p]] = name

\* a rejection that does not end the turn
AfterCallback_NoShortCircuit(r) ==
    IF r.kind \in {"None", "Rejection"} THEN "callbacks" ELSE "failed"

\* what the runner does with the result r of the callback just run
AfterCallback(r) ==
    IF r.kind = "None" THEN "callbacks"
    ELSE IF r.kind = "Rejection" THEN "replied"
    ELSE "failed"

Return(p, r) ==
    /\ pc' = [pc EXCEPT ![p] = AfterCallback(r)]
    /\ idx' = [idx EXCEPT ![p] = @ + 1]
    /\ reply' = [reply EXCEPT ![p] = IF r.kind = "None" THEN @ ELSE r]

\* the runner prepares a model call of agent a for request p
LlmCall(p, a) ==
    /\ pc[p] = "ready"
    /\ nInsp < MaxInspections
    /\ nInsp' = nInsp + 1
    /\ pc' = [pc EXCEPT ![p] = "callbacks"]
    /\ agent' = [agent EXCEPT ![p] = a]
    /\ idx' = [idx EXCEPT ![p] = 1]
    /\ ran' = [ran EXCEPT ![p] = <<>>]
    /\ UNCHANGED <<cfgVars, memVars, fnVars, httpVars,
                   apiVars, rlVars, obsVars, is_document_upload, clock, now,
                   contents, isDoc, reply, modelAt>>

CallTokenGuard(p) ==
    /\ AtCallback(p, "TokenGuard")
    /\ ran' = [ran EXCEPT ![p] = Append(@, "TokenGuard")]
    /\ Return(p, TokenGuardCall(contents[p], is_document_upload,
                                max_tokens, document_upload_max_tokens))
    /\ UNCHANGED <<cfgVars, memVars, fnVars, httpVars,
                   apiVars, rlVars, obsVars, is_document_upload, clock, agent,
                   now, contents, isDoc, modelAt, nInsp>>

\* the keyword filter written to count the request against the quota
CallQueryGuard_Records(p) ==
    /\ AtCallback(p, "QueryGuard")
    /\ ran' = [ran EXCEPT ![p] = Append(@, "QueryGuard")]
    /\ Return(p, QueryGuardCall(blocked_words, contents[p]))
    /\ requests' = Append(requests, clock)
    /\ UNCHANGED <<cfgVars, memVars, fnVars, httpVars,
                   apiVars, lock, waiters, obsVars, is_document_upload, clock,
                   agent, now, contents, isDoc, modelAt, nInsp>>

\* QueryGuard.__call__ run as the callback at idx of request p
CallQueryGuard(p) ==
    /\ AtCallback(p, "QueryGuard")
    /\ ran' = [ran EXCEPT ![p] = Append(@, "QueryGuard")]
    /\ Return(p, QueryGuardCall(blocked_words, contents[p]))
    /\ UNCHANGED <<cfgVars, memVars, fnVars, httpVars,
                   apiVars, rlVars, obsVars, is_document_upload, clock, agent,
                   now, contents, isDoc, modelAt, nInsp>>

(***************************************************************************)
(* RateLimiter.__call__, step by step.                                     *)
(***************************************************************************)
\* lines 251-254: enter and ask for the lock
CallRateLimiter(p) ==
    /\ AtCallback(p, "RateLimiter")
    /\ ran' = [ran EXCEPT ![p] = Append(@, "RateLimiter")]
    /\ IF CanAcquire
       THEN /\ lock' = p
            /\ pc' = [pc EXCEPT ![p] = "rl_locked"]
            /\ UNCHANGED waiters
       ELSE /\ waiters' = Append(waiters, p)
            /\ pc' = [pc EXCEPT ![p] = "rl_wait"]
            /\ UNCHANGED lock
    /\ UNCHANGED <<cfgVars, memVars, fnVars, httpVars,
                   apiVars, obsVars, requests, is_document_upload, clock,
                   agent, idx, now, contents, isDoc, reply, modelAt, nInsp>>

\* the lock is handed to the first queued coroutine
RL_Wake(p) ==
    /\ pc[p] = "rl_wait"
    /\ lock = NoHolder
    /\ waiters # <<>> /\ Head(waiters) = p
    /\ lock' = p
    /\ waiters' = Tail(waiters)
    /\ pc' = [pc EXCEPT ![p] = "rl_locked"]
    /\ UNCHANGED <<cfgVars, memVars, fnVars, httpVars,
                   apiVars, obsVars, requests, is_document_upload, clock,
                   agent, idx, now, contents, isDoc, reply, ran, modelAt, nInsp>>

\* lines 255-258: read the clock, drop the stale timestamps
RL_Trim(p) ==
    /\ pc[p] = "rl_locked"
    /\ now' = [now EXCEPT ![p] = clock]
    /\ requests' = TrimStale(requests, clock, time_window)
    /\ last' = [proc |-> p, now |-> clock, pre |-> requests,
                post |-> requests', outcome |-> "deciding", wait |-> 0]
    /\ pc' = [pc EXCEPT ![p] = "rl_check"]
    /\ UNCHANGED <<cfgVars, memVars, fnVars, httpVars,
                   apiVars, lock, waiters, nDecided, firstAt, nAdmitted,
                   rejections,
                   is_document_upload, clock, agent, idx, contents, isDoc,
                   reply, ran, modelAt, nInsp>>

\* line 261: compare the count with the quota
RL_Check(p) ==
    /\ pc[p] = "rl_check"
    /\ pc' = [pc EXCEPT ![p] =
                 IF QuotaReached(requests, max_requests)
                 THEN "rl_reject" ELSE "rl_append"]
    /\ UNCHANGED <<cfgVars, memVars, fnVars, httpVars,
                   apiVars, rlVars, obsVars, is_document_upload, clock, agent,
                   idx, now, contents, isDoc, reply, ran, modelAt, nInsp>>

Decided(p, outcome, wait) ==
    /\ last' = [proc |-> p, now |-> now[p], pre |-> last.pre,
                post |-> requests', outcome |-> outcome, wait |-> wait]
    /\ nDecided' = nDecided + 1
    /\ firstAt' = IF nDecided = 0 THEN now[p] ELSE firstAt
    /\ nAdmitted' = IF outcome = "None" THEN nAdmitted + 1 ELSE nAdmitted
    /\ rejections' =
           IF outcome = "Rejection"
           THEN rejections \cup {[now |-> now[p], wait |-> wait]}
           ELSE IF outcome = "None" THEN {} ELSE rejections

\* the refusal written to record the refused request as well
RL_Reject_Appends(p) ==
    /\ pc[p] = "rl_reject"
    /\ lock' = NoHolder
    /\ requests' = Append(requests, now[p])
    /\ UNCHANGED waiters
    /\ IF requests = <<>>
       THEN /\ Decided(p, "IndexError", 0)
            /\ Return(p, Result("IndexError", "RateLimiter", <<>>, 0, "", 0))
       ELSE LET wait_time == WaitTime(time_window, now[p], requests[1])
            IN  /\ Decided(p, "Rejection", wait_time)
                /\ Return(p, Result("Rejection", "RateLimiter", <<>>, 0, "",
                                    wait_time))
    /\ UNCHANGED <<cfgVars, memVars, fnVars, httpVars,
                   apiVars, is_document_upload, clock, agent, now, contents,
                   isDoc, ran, modelAt, nInsp>>

\* lines 262-277: refuse, reporting the wait; requests[0] of an empty deque
\* raises IndexError.  Leaving the with block releases the lock.
RL_Reject(p) ==
    /\ pc[p] = "rl_reject"
    /\ lock' = NoHolder
    /\ UNCHANGED <<requests, waiters>>
    /\ IF requests = <<>>
       THEN /\ Decided(p, "IndexError", 0)
            /\ Return(p, Result("IndexError", "RateLimiter", <<>>, 0, "", 0))
       ELSE LET wait_time == WaitTime(time_window, now[p], requests[1])
            IN  /\ Decided(p, "Rejection", wait_time)
                /\ Return(p, Result("Rejection", "RateLimiter", <<>>, 0, "",
                                    wait_time))
    /\ UNCHANGED <<cfgVars, memVars, fnVars, httpVars,
                   apiVars, is_document_upload, clock, agent, now, contents,
                   isDoc, ran, modelAt, nInsp>>

\* the admission written with appendleft
RL_Append_Left(p) ==
    /\ pc[p] = "rl_append"
    /\ requests' = <<now[p]>> \o requests
    /\ lock' = NoHolder
    /\ UNCHANGED waiters
    /\ Decided(p, "None", 0)
    /\ Return(p, None)
    /\ UNCHANGED <<cfgVars, memVars, fnVars, httpVars,
                   apiVars, is_document_upload, clock, agent, now, contents,
                   isDoc, ran, modelAt, nInsp>>

\* lines 278-280: record the request and admit it
RL_Append(p) ==
    /\ pc[p] = "rl_append"
    /\ requests' = Append(requests, now[p])
    /\ lock' = NoHolder
    /\ UNCHANGED waiters
    /\ Decided(p, "None", 0)
    /\ Return(p, None)
    /\ UNCHANGED <<cfgVars, memVars, fnVars, httpVars,
                   apiVars, is_document_upload, clock, agent, now, contents,
                   isDoc, ran, modelAt, nInsp>>

\* the request's task is cancelled while it still holds the lock
Cancel_KeepsLock(p) ==
    /\ pc[p] \in {"rl_wait", "rl_locked", "rl_check", "rl_reject", "rl_append"}
    /\ pc' = [pc EXCEPT ![p] = "cancelled"]
    /\ UNCHANGED <<cfgVars, memVars, fnVars, httpVars, apiVars, rlVars, obsVars,
                   is_document_upload, clock, agent, idx, now, contents,
                   isDoc, reply, ran, modelAt, nInsp>>

\* the request's task is cancelled during the inspection: while queued on
\* the lock it leaves the queue, inside the with block the block's exit
\* releases the lock
Cancel(p) ==
    /\ pc[p] \in {"rl_wait", "rl_locked", "rl_check", "rl_reject", "rl_append"}
    /\ IF pc[p] = "rl_wait"
       THEN /\ waiters' = SelectSeq(waiters, LAMBDA w : w # p)
            /\ UNCHANGED lock
       ELSE /\ lock' = NoHolder
            /\ UNCHANGED waiters
    /\ pc' = [pc EXCEPT ![p] = "cancelled"]
    /\ UNCHANGED <<cfgVars, memVars, fnVars, httpVars, apiVars, obsVars, requests,
                   is_document_upload, clock, agent, idx, now, contents,
                   isDoc, reply, ran, modelAt, nInsp>>

(***************************************************************************)
(* Every callback returned None: the model is called.                      *)
(***************************************************************************)
ModelCall(p) ==
    /\ pc[p] = "callbacks"
    /\ idx[p] > Len(Chain(p))
    /\ pc' = [pc EXCEPT ![p] = "model"]
    /\ modelAt' = [modelAt EXCEPT ![p] = Append(@, clock)]
    /\ UNCHANGED <<cfgVars, memVars, fnVars, httpVars,
                   apiVars, rlVars, obsVars, is_document_upload, clock, agent,
                   idx, now, contents, isDoc, reply, ran, nInsp>>

\* the model's answer is the final response of the turn
ModelReturn(p) ==
    /\ pc[p] = "model"
    /\ pc' = [pc EXCEPT ![p] = "replied"]
    /\ reply' = [reply EXCEPT ![p] = Result("Model", agent[p], <<>>, 0, "", 0)]
    /\ UNCHANGED <<cfgVars, memVars, fnVars, httpVars,
                   apiVars, rlVars, obsVars, is_document_upload, clock, agent,
                   idx, now, contents, isDoc, ran, modelAt, nInsp>>

\* the coroutine ended; its slot takes the next request
Again(p, c, d) ==
    /\ pc[p] \in {"replied", "failed"}
    /\ nInsp < MaxInspections
    /\ pc' = [pc EXCEPT ![p] = "ready"]
    /\ contents' = [contents EXCEPT ![p] = c]
    /\ isDoc' = [isDoc EXCEPT ![p] = d]
    /\ reply' = [reply EXCEPT ![p] = Pending]
    /\ ran' = [ran EXCEPT ![p] = <<>>]
    /\ modelAt' = [modelAt EXCEPT ![p] = <<>>]
    /\ UNCHANGED <<cfgVars, memVars, fnVars, httpVars,
                   apiVars, rlVars, obsVars, is_document_upload, clock, agent,
                   idx, now, nInsp>>

\* time passes
Tick ==
    /\ clock < MaxTime
    /\ clock' = clock + 1
    /\ UNCHANGED <<cfgVars, memVars, fnVars, httpVars,
                   apiVars, rlVars, obsVars, is_document_upload, pc, agent,
                   idx, now, contents, isDoc, reply, ran, modelAt, nInsp>>

(***************************************************************************)
(* The agents of agents/team.py and the /chat handler of api.py.           *)
(***************************************************************************)
Orchestrator == "BU_MET_Guide"

SubAgents == {"Career_Agent", "Course_Agent", "Scheduling_Agent",
              "Document_Agent", "Memory_Agent"}

Agents == {Orchestrator} \cup SubAgents

\* the before_model_callback argument of each build_agent call; the
\* Course agent is built without one
ShippedCallbacks ==
    [a \in Agents |->
        IF a = "Course_Agent" THEN <<>> ELSE <<"TokenGuard", "QueryGuard">>]

Digits == <<"0","1","2","3","4","5","6","7","8","9">>

\* datetime.now().strftime(...), one digit of the seconds standing for it
Timestamp(t) == <<Digits[((t \div TicksPerSecond) % 10) + 1]>>

\* request.session_id or f"session_{user_id}_{timestamp}"
EffectiveSessionId(u, sid, t) ==
    IF sid # NoId THEN sid
    ELSE <<"s","e","s","s","i","o","n","_">> \o u \o <<"_">> \o Timestamp(t)

\* f"{user_id}_{session_id}"
SessionKey(u, sid) == u \o <<"_">> \o sid

\* chat(), lines 153-188: set the token guard's mode, find or create the
\* session, then sleep before querying the agent
ChatBegin(p) ==
    /\ pc[p] = "http"
    /\ LET sid == EffectiveSessionId(user_id[p], session_id[p], clock)
           session_key == SessionKey(user_id[p], sid)
       IN  /\ session_id' = [session_id EXCEPT ![p] = sid]
           /\ IF session_key \notin sessions
              THEN /\ service' = service \cup {<<user_id[p], sid>>}
                   /\ sessions' = sessions \cup {session_key}
              ELSE UNCHANGED <<service, sessions>>
    /\ is_document_upload' = isDoc[p]
    /\ pc' = [pc EXCEPT ![p] = "ready"]
    /\ UNCHANGED <<cfgVars, memVars, fnVars, httpVars,
                   rlVars, obsVars, user_id, clock, agent, idx, now,
                   contents, isDoc, reply, ran, modelAt, nInsp>>

\* the parts of a function call and of its response carry no text
ToolExchange ==
    <<[role |-> "model", parts |-> << <<>> >>],
      [role |-> "user", parts |-> << <<>> >>]>>

\* the orchestrator's model hands the turn to sub-agent a, whose own model
\* call is prepared next
Transfer(p, a) ==
    /\ pc[p] = "model"
    /\ agent[p] = Orchestrator
    /\ a \in SubAgents
    /\ agent' = [agent EXCEPT ![p] = a]
    /\ contents' = [contents EXCEPT ![p] = @ \o ToolExchange]
    /\ idx' = [idx EXCEPT ![p] = 1]
    /\ ran' = [ran EXCEPT ![p] = <<>>]
    /\ pc' = [pc EXCEPT ![p] = "callbacks"]
    /\ UNCHANGED <<cfgVars, memVars, fnVars, httpVars,
                   apiVars, rlVars, obsVars, is_document_upload,
                   clock, now, isDoc, reply, modelAt, nInsp>>

\* the model call fails (the API client raises): the exception leaves
\* runner.run_async and query_agent
ModelRaises(p) ==
    /\ pc[p] = "model"
    /\ pc' = [pc EXCEPT ![p] = "failed"]
    /\ reply' = [reply EXCEPT ![p] = Result("Exception", agent[p], <<>>, 0, "", 0)]
    /\ UNCHANGED <<cfgVars, memVars, fnVars, httpVars, apiVars, rlVars, obsVars,
                   is_document_upload, clock, agent, idx, now, contents,
                   isDoc, ran, modelAt, nInsp>>

\* the text of the final response event query_agent returns
ReplyText(r) ==
    IF r.kind = "Model" THEN "final_response_text"
    ELSE IF r.by = "QueryGuard"
         THEN "I cannot process this request because it contains the blocked keyword '{kw}'."
         ELSE "I cannot process this {query_type} as it exceeds the token limit of {token_limit}. Please try a shorter input."

\* chat(), lines 191-200: query_agent returned, the ChatResponse is sent
ChatReturn(p) ==
    /\ pc[p] = "replied"
    /\ pc' = [pc EXCEPT ![p] = "done"]
    /\ response' = [response EXCEPT ![p] =
                        [status |-> 200, response |-> ReplyText(reply[p])]]
    /\ UNCHANGED <<cfgVars, memVars, fnVars, apiVars, rlVars, obsVars, delete_response,
                   is_document_upload, clock, agent, idx, now, contents,
                   isDoc, reply, ran, modelAt, nInsp>>

\* chat(), lines 206-212: except Exception logs and prints the error and
\* falls off the end of the handler; the None it returns is not a
\* ChatResponse, which the framework answers with a server error
ChatExcept(p) ==
    /\ pc[p] = "failed"
    /\ pc' = [pc EXCEPT ![p] = "done"]
    /\ response' = [response EXCEPT ![p] =
                        [status |-> 500, response |-> "Internal Server Error"]]
    /\ UNCHANGED <<cfgVars, memVars, fnVars, apiVars, rlVars, obsVars, delete_response,
                   is_document_upload, clock, agent, idx, now, contents,
                   isDoc, reply, ran, modelAt, nInsp>>

\* delete_session(user_id, session_id)
DeleteSession(u, sid) ==
    LET session_key == SessionKey(u, sid)
    IN  /\ delete_response.n < MaxDeletes
        /\ IF session_key \in sessions
           THEN /\ sessions' = sessions \ {session_key}
                /\ delete_response' =
                       [n |-> delete_response.n + 1,
                        session_key |-> session_key, status |-> 200,
                        message |-> "Session {session_key} deleted"]
           ELSE /\ UNCHANGED sessions
                /\ delete_response' =
                       [n |-> delete_response.n + 1,
                        session_key |-> session_key, status |-> 200,
                        message |-> "Session not found"]
        /\ UNCHANGED <<cfgVars, memVars, fnVars, rlVars, obsVars, response, user_id,
                       session_id, service, is_document_upload, clock, pc,
                       agent, idx, now, contents, isDoc, reply, ran, modelAt,
                       nInsp>>

(***************************************************************************)
(* The user-memory store of agents/functions.py.  A JSON value is [t, v]:  *)
(* None, a string, a list, or a dict (a function from keys to values).     *)
(***************************************************************************)
NoneV == [t |-> "none", v |-> ""]
Str(a) == [t |-> "str", v |-> a]
List(q) == [t |-> "list", v |-> q]
Dict(f) == [t |-> "dict", v |-> f]

EmptyDict == [k \in {} |-> NoneV]

\* dct.get(k)
GetKey(dct, k) == IF k \in DOMAIN dct THEN dct[k] ELSE NoneV

\* bool(x)
Truthy(x) ==
    CASE x.t = "none" -> FALSE
      [] x.t = "str" -> x.v # ""
      [] x.t = "list" -> Len(x.v) > 0
      [] x.t = "dict" -> DOMAIN x.v # {}

\* a or b
Or(a, b) == IF Truthy(a) THEN a ELSE b

\* merge_dict, line 480: if v is None: continue
Skips(v) == v.t = "none"

\* merge_dict(dst, src), lines 479-485, as the dict dst has become
RECURSIVE merge_dict(_, _)
merge_dict(dst, src) ==
    [k \in DOMAIN dst \cup {j \in DOMAIN src : ~Skips(src[j])} |->
        IF k \in DOMAIN src /\ ~Skips(src[k])
        THEN IF src[k].t = "dict" /\ k \in DOMAIN dst /\ dst[k].t = "dict"
             THEN Dict(merge_dict(dst[k].v, src[k].v))
             ELSE src[k]
        ELSE dst[k]]

\* _summarize_user_memory(user_id, profile), lines 404-455, as the dict its
\* JSON text decodes to
summarize_user_memory(user, profile) ==
    LET get(k) == GetKey(profile, k)
        personal ==
            [k \in {"name", "email", "location"} |->
                CASE k = "name" -> Or(Or(get("name"), get("full_name")), NoneV)
                  [] k = "email" -> Or(get("email"), NoneV)
                  [] k = "location" -> Or(Or(get("location"), get("city")), NoneV)]
        academic ==
            [k \in {"declared_major", "gpa", "graduation_year"} |->
                CASE k = "declared_major" ->
                         Or(Or(get("declared_major"), get("major")), NoneV)
                  [] k = "gpa" -> Or(get("gpa"), NoneV)
                  [] k = "graduation_year" -> Or(get("graduation_year"), NoneV)]
        career_goals ==
            [k \in {"target_titles", "industries", "timeline"} |->
                CASE k = "target_titles" ->
                         Or(Or(get("target_titles"), get("career_goals")), List(<<>>))
                  [] k = "industries" ->
                         Or(Or(get("target_industries"), get("industries")), List(<<>>))
                  [] k = "timeline" ->
                         Or(Or(get("career_timeline"), get("timeline")), NoneV)]
        schedule ==
            [k \in {"current_courses", "preferences"} |->
                CASE k = "current_courses" ->
                         Or(Or(get("current_courses"), get("schedule")), List(<<>>))
                  [] k = "preferences" ->
                         Or(Or(get("schedule_preferences"), get("preferences")),
                            Dict(EmptyDict))]
        completed_coursework ==
            Or(Or(get("completed_coursework"), get("courses_completed")), List(<<>>))
        professional ==
            [k \in {"jobs", "skills", "certifications"} |->
                CASE k = "jobs" -> Or(Or(get("work_experience"), get("jobs")), List(<<>>))
                  [] k = "skills" -> Or(get("skills"), List(<<>>))
                  [] k = "certifications" -> Or(get("certifications"), List(<<>>))]
        identifiers ==
            [k \in {"student_id", "institution"} |->
                CASE k = "student_id" -> Or(get("student_id"), NoneV)
                  [] k = "institution" -> Or(get("institution"), NoneV)]
        meta == [k \in {"last_updated"} |-> Or(get("last_updated"), NoneV)]
    IN  [k \in {"user_id", "personal", "academic", "career_goals", "schedule",
                "completed_coursework", "professional", "identifiers", "meta"} |->
            CASE k = "user_id" -> Or(Str(user), NoneV)
              [] k = "personal" -> Dict(personal)
              [] k = "academic" -> Dict(academic)
              [] k = "career_goals" -> Dict(career_goals)
              [] k = "schedule" -> Dict(schedule)
              [] k = "completed_coursework" -> completed_coursework
              [] k = "professional" -> Dict(professional)
              [] k = "identifiers" -> Dict(identifiers)
              [] k = "meta" -> Dict(meta)]

\* the value _store_user_memory leaves in _MEMORY_STORE[user_id]
Merged(store, user, profile) ==
    LET existing == IF user \in DOMAIN store THEN store[user] ELSE EmptyDict
    IN  IF "personal" \in DOMAIN profile \/ "academic" \in DOMAIN profile
        THEN merge_dict(existing, profile)
        ELSE merge_dict(existing, summarize_user_memory(user, profile))

\* _store_user_memory(user_id, profile)
store_user_memory(user, profile) ==
    /\ memory_store' =
           [u \in DOMAIN memory_store \cup {user} |->
               IF u = user THEN Merged(memory_store, user, profile)
               ELSE memory_store[u]]
    /\ memory_call' = [op |-> "store", user_id |-> user, profile |-> profile,
                       result |-> TRUE]
    /\ UNCHANGED <<cfgVars, fnVars, httpVars, apiVars, rlVars, obsVars,
                   is_document_upload, clock, pc, agent, idx, now, contents,
                   isDoc, reply, ran, modelAt, nInsp>>

\* line 518: if fields:
FieldsGiven(fields) == Truthy(fields)

\* the JSON value _get_user_memory_for_agent(user_id, fields) returns
UserMemoryFor(store, user, fields) ==
    LET data == IF user \in DOMAIN store THEN Dict(store[user]) ELSE NoneV
    IN  IF ~Truthy(data)
        THEN [user_id |-> user, profile |-> NoneV]
        ELSE IF FieldsGiven(fields)
             THEN [user_id |-> user,
                   profile |-> Dict([k \in {fields.v[i] : i \in 1..Len(fields.v)} |->
                                        GetKey(data.v, k)])]
             ELSE [user_id |-> user, profile |-> data]

\* _get_user_memory_for_agent(user_id, fields)
get_user_memory_for_agent(user, fields) ==
    /\ memory_call' = [op |-> "get", user_id |-> user, fields |-> fields,
                       result |-> UserMemoryFor(memory_store, user, fields)]
    /\ UNCHANGED <<cfgVars, fnVars, httpVars, apiVars, rlVars, obsVars,
                   memory_store, is_document_upload, clock, pc, agent, idx,
                   now, contents, isDoc, reply, ran, modelAt, nInsp>>

(***************************************************************************)
(* Initial states.                                                         *)
(***************************************************************************)
ShippedBlockedWords ==
    << <<"s","e","x">>, <<"d","r","u","g","s">>, <<"m","u","r","d","e","r">>,
       <<"c","r","i","m","e">>, <<"r","a","p","e">>,
       <<"e","x","p","l","o","i","t">>, <<"s","l","a","v","e">> >>

ShippedMaxTokens == 125
DefaultDocumentUploadMaxTokens == 5000

InitProcs(cs, ds, a) ==
    /\ pc = [p \in Procs |-> "ready"]
    /\ user_id = [p \in Procs |-> NoId]
    /\ session_id = [p \in Procs |-> NoId]
    /\ sessions = {}
    /\ service = {}
    /\ agent = [p \in Procs |-> a]
    /\ idx = [p \in Procs |-> 1]
    /\ now = [p \in Procs |-> 0]
    /\ contents \in [Procs -> cs]
    /\ isDoc \in [Procs -> ds]
    /\ reply = [p \in Procs |-> Pending]
    /\ ran = [p \in Procs |-> <<>>]
    /\ modelAt = [p \in Procs |-> <<>>]
    /\ nInsp = 0

\* agents/team.py builds no FunctionGuard
NoFunctionGuard ==
    /\ blocked_params = NoRules
    /\ function_call = NoCall
    /\ fnpc = "idle"
    /\ allowed = TRUE

\* _MEMORY_STORE = {} and no call made on it
NoMemory ==
    /\ memory_store = EmptyDict
    /\ memory_call = [op |-> "none"]

NoResponses ==
    /\ response = [p \in Procs |-> NoResponse]
    /\ delete_response = NoDeleteResponse

InitGuards ==
    /\ NoFunctionGuard
    /\ NoResponses
    /\ NoMemory
    /\ requests = <<>>
    /\ lock = NoHolder
    /\ waiters = <<>>
    /\ is_document_upload = FALSE
    /\ clock = 0
    /\ last = NoDecision
    /\ nDecided = 0
    /\ firstAt = 0
    /\ nAdmitted = 0
    /\ rejections = {}

(***************************************************************************)
(* SpecRL: one RateLimiter as the only before-model callback of an agent,  *)
(* inspected by concurrent requests.                                       *)
(***************************************************************************)
InitRL ==
    /\ max_requests \in -1..MaxRequests
    /\ time_window \in 1..MaxWindow
    /\ max_tokens = ShippedMaxTokens
    /\ document_upload_max_tokens = DefaultDocumentUploadMaxTokens
    /\ blocked_words = <<>>
    /\ before_model_callback = [a \in {"TestAgent"} |-> <<"RateLimiter">>]
    /\ InitGuards
    /\ InitProcs({UserTurn(<<"t","e","s","t">>)}, {FALSE}, "TestAgent")

NextRL ==
    \/ Tick
    \/ \E p \in Procs : LlmCall(p, "TestAgent")
    \/ \E p \in Procs : CallRateLimiter(p)
    \/ \E p \in Procs : RL_Wake(p)
    \/ \E p \in Procs : RL_Trim(p)
    \/ \E p \in Procs : RL_Check(p)
    \/ \E p \in Procs : RL_Reject(p)
    \/ \E p \in Procs : RL_Append(p)
    \/ \E p \in Procs : ModelCall(p)
    \/ \E p \in Procs : ModelReturn(p)
    \/ \E p \in Procs : Again(p, contents[p], FALSE)

SpecRL == InitRL /\ [][NextRL]_vars


(***************************************************************************)
(* SpecChain: one agent whose callback list is one of several orders of    *)
(* the three guards, among them the list agents/team.py ships; requests    *)
(* arrive in rapid succession (the clock does not advance).                *)
(***************************************************************************)
ShippedChain == <<"TokenGuard", "QueryGuard">>

ChainOrders ==
    { ShippedChain,
      <<"QueryGuard", "TokenGuard">>,
      <<"TokenGuard", "QueryGuard", "RateLimiter">>,
      <<"QueryGuard", "RateLimiter">>,
      <<"RateLimiter", "TokenGuard", "QueryGuard">> }

ChainBlockedWords == << <<"s","e","x">>, <<"e","x">> >>

ChainTexts ==
    { <<"h","i">>,
      <<"S","e","X">>,
      Repeat("y", 2 * chars_per_token),
      <<"s","E","x">> \o Repeat("y", 2 * chars_per_token) }

InitChain ==
    /\ max_requests \in 1..MaxRequests
    /\ time_window = 1
    /\ max_tokens = 1
    /\ document_upload_max_tokens = 3
    /\ blocked_words = ChainBlockedWords
    /\ before_model_callback \in [{"TestAgent"} -> ChainOrders]
    /\ InitGuards
    /\ InitProcs({UserTurn(t) : t \in ChainTexts}, {FALSE}, "TestAgent")

NextChain ==
    \/ \E p \in Procs : LlmCall(p, "TestAgent")
    \/ \E p \in Procs : CallTokenGuard(p)
    \/ \E p \in Procs : CallQueryGuard(p)
    \/ \E p \in Procs : CallRateLimiter(p)
    \/ \E p \in Procs : RL_Wake(p)
    \/ \E p \in Procs : RL_Trim(p)
    \/ \E p \in Procs : RL_Check(p)
    \/ \E p \in Procs : RL_Reject(p)
    \/ \E p \in Procs : RL_Append(p)
    \/ \E p \in Procs : ModelCall(p)
    \/ \E p \in Procs : ModelReturn(p)

SpecChain == InitChain /\ [][NextChain]_vars

(***************************************************************************)
(* SpecApp: the service as shipped - concurrent POST /chat requests        *)
(* against the orchestrator and its sub-agents.  No RateLimiter is built   *)
(* by agents/team.py; max_requests and time_window are the quota the       *)
(* start-up banner of api.py announces (requests per minute).  The         *)
(* requests arrive within one reading of the clock.                        *)
(***************************************************************************)
SecondsPerMinute == 60

AppTexts ==
    { <<"h","i">>,
      <<"D","r","u","g","s">>,
      Repeat("y", chars_per_token * (ShippedMaxTokens + 1)) }

AppUsers == { <<"w","e","b","_","u","s","e","r">> }

AppSessionIds == { NoId }

InitApp ==
    /\ max_requests \in 1..MaxRequests
    /\ time_window = SecondsPerMinute
    /\ max_tokens = ShippedMaxTokens
    /\ document_upload_max_tokens = DefaultDocumentUploadMaxTokens
    /\ blocked_words = ShippedBlockedWords
    /\ before_model_callback = ShippedCallbacks
    /\ InitGuards
    /\ pc = [p \in Procs |-> "http"]
    /\ agent = [p \in Procs |-> Orchestrator]
    /\ idx = [p \in Procs |-> 1]
    /\ now = [p \in Procs |-> 0]
    /\ contents \in [Procs -> {UserTurn(t) : t \in AppTexts}]
    /\ isDoc \in [Procs -> BOOLEAN]
    /\ reply = [p \in Procs |-> Pending]
    /\ ran = [p \in Procs |-> <<>>]
    /\ modelAt = [p \in Procs |-> <<>>]
    /\ user_id \in [Procs -> AppUsers]
    /\ session_id \in [Procs -> AppSessionIds]
    /\ sessions = {}
    /\ service = {}
    /\ nInsp = 0

NextApp ==
    \/ \E p \in Procs : ChatBegin(p)
    \/ \E p \in Procs : LlmCall(p, Orchestrator)
    \/ \E p \in Procs : CallTokenGuard(p)
    \/ \E p \in Procs : CallQueryGuard(p)
    \/ \E p \in Procs : ModelCall(p)
    \/ \E p \in Procs, a \in SubAgents : Transfer(p, a)
    \/ \E p \in Procs : ModelReturn(p)

SpecApp == InitApp /\ [][NextApp]_vars

(***************************************************************************)
(* SpecTok: one TokenGuard as the only callback, for every small pair of   *)
(* ceilings, either mode, and every message length around the ceilings.    *)
(***************************************************************************)
MaxTextLen == chars_per_token * (MaxTok + 2) + chars_per_token - 1

TokTexts == {Repeat("y", n) : n \in 0..MaxTextLen}

InitTok ==
    /\ max_requests = 1
    /\ time_window = 1
    /\ max_tokens \in 0..MaxTok
    /\ document_upload_max_tokens \in 0..(MaxTok + 1)
    /\ blocked_words = <<>>
    /\ before_model_callback = [a \in {"TestAgent"} |-> <<"TokenGuard">>]
    /\ InitGuards
    /\ \E t \in TokTexts : InitProcs({UserTurn(t)}, {FALSE}, "TestAgent")

\* TokenGuard.set_document_mode
SetDocumentMode(is_document) ==
    /\ is_document_upload' = is_document
    /\ UNCHANGED <<cfgVars, memVars, fnVars, httpVars,
                   apiVars, rlVars, obsVars, clock, pc, agent, idx,
                   now, contents, isDoc, reply, ran, modelAt, nInsp>>

NextTok ==
    \/ \E b \in BOOLEAN : SetDocumentMode(b)
    \/ \E p \in Procs : LlmCall(p, "TestAgent")
    \/ \E p \in Procs : CallTokenGuard(p)
    \/ \E p \in Procs : ModelCall(p)
    \/ \E p \in Procs : ModelReturn(p)

SpecTok == InitTok /\ [][NextTok]_vars

(***************************************************************************)
(* Properties of the rate limiter (SpecRL).                                *)
(***************************************************************************)
WindowTicks == time_window * TicksPerSecond

HasDecided == last.outcome \in {"None", "Rejection", "IndexError"}

InCriticalSection(p) == pc[p] \in {"rl_locked", "rl_check", "rl_append", "rl_reject"}

\* C1: with max_requests = K >= 1, starting from an empty limiter, as long
\* as all inspections so far lie within one window of the first, each of
\* the first K inspections returns None and the (K+1)-th returns a
\* Rejection whose reported wait is a positive number of seconds.
C1_AdmitsExactlyQuota ==
    (max_requests >= 1 /\ HasDecided /\ last.now - firstAt < WindowTicks) =>
        /\ nDecided <= max_requests => last.outcome = "None"
        /\ nDecided = max_requests + 1 =>
               last.outcome = "Rejection" /\ last.wait > 0

C1_Witness ==
    /\ max_requests = 2
    /\ nDecided = 3
    /\ nAdmitted = 2
    /\ last.outcome = "Rejection"
    /\ last.wait > 0
    /\ last.now - firstAt < WindowTicks

\* C2: immediately after an inspection that admits a request at time now,
\* the number of stored timestamps within [now - window, now] is at most
\* max_requests.
InWindow(reqs, n) ==
    {i \in 1..Len(reqs) : reqs[i] >= n - WindowTicks /\ reqs[i] <= n}

C2_WindowCountWithinQuota ==
    last.outcome = "None" =>
        Cardinality(InWindow(last.post, last.now)) <= max_requests

C2_Witness ==
    /\ last.outcome = "None"
    /\ nAdmitted > max_requests
    /\ Cardinality(InWindow(last.post, last.now)) = max_requests
    /\ max_requests = 2

\* C3: the trim / compare / append sequence of one inspection is atomic
\* with respect to every other inspection: at most one inspection is
\* inside the sequence, it holds the lock, nobody else has touched the
\* timestamps since its trim, and the free slot it observed is still
\* free when it appends - so one remaining slot never admits two requests.
C3_InspectionAtomic ==
    /\ Cardinality({p \in Procs : InCriticalSection(p)}) <= 1
    /\ \A p \in Procs :
        /\ InCriticalSection(p) => lock = p
        /\ pc[p] \in {"rl_check", "rl_append", "rl_reject"} =>
               last.proc = p /\ requests = last.post
        /\ pc[p] = "rl_append" => Len(requests) < max_requests
    /\ max_requests >= 0 => Len(requests) <= max_requests

C3_Witness ==
    \E p, q \in Procs :
        /\ pc[p] = "rl_append"
        /\ pc[q] = "rl_wait"
        /\ max_requests >= 1
        /\ Len(requests) = max_requests - 1

\* C4: once max_requests = K >= 1 admitted requests fill the quota, an
\* inspection at a time t with t - (oldest of them) >= window, t equal to
\* oldest + window included, is admitted.
C4_AdmittedAfterWindow ==
    (/\ max_requests >= 1
     /\ HasDecided
     /\ Len(last.pre) = max_requests
     /\ last.now - last.pre[1] >= WindowTicks) => last.outcome = "None"

C4_Witness ==
    /\ max_requests >= 1
    /\ HasDecided
    /\ Len(last.pre) = max_requests
    /\ last.now - last.pre[1] = WindowTicks
    /\ last.outcome = "None"
    /\ nAdmitted > max_requests


(***************************************************************************)
(* Properties of the callback chain (SpecChain).                           *)
(***************************************************************************)
Configured(p) == before_model_callback[agent[p]]

Precedes(chain, a, b) ==
    \E i, j \in 1..Len(chain) : i < j /\ chain[i] = a /\ chain[j] = b

Invoked(p, name) == \E i \in 1..Len(ran[p]) : ran[p][i] = name

IsPrefix(a, b) == Len(a) <= Len(b) /\ \A i \in 1..Len(a) : a[i] = b[i]

\* what a guard without state of its own answers to request p
Verdict(name, p) ==
    IF name = "TokenGuard"
    THEN TokenGuardCall(contents[p], is_document_upload, max_tokens,
                        document_upload_max_tokens)
    ELSE QueryGuardCall(blocked_words, contents[p])

OverCeiling(p) ==
    Verdict("TokenGuard", p).kind = "Rejection"

HasBlockedWord(p) ==
    Verdict("QueryGuard", p).kind = "Rejection"

RejectedBy(p, name) == reply[p].kind = "Rejection" /\ reply[p].by = name

\* C5: where QueryGuard precedes RateLimiter in the callback list, a
\* request QueryGuard rejects ends there: RateLimiter is never invoked for
\* it, and the rejecting step leaves the timestamps, the lock and its
\* queue as they were.
C5_KeywordRejectionLeavesLimiter ==
    /\ [](\A p \in Procs :
            (Precedes(Configured(p), "QueryGuard", "RateLimiter")
             /\ RejectedBy(p, "QueryGuard"))
            => (pc[p] = "replied" /\ ~Invoked(p, "RateLimiter")))
    /\ [][\A p \in Procs :
            (~RejectedBy(p, "QueryGuard") /\ RejectedBy(p, "QueryGuard")')
            => UNCHANGED <<requests, lock, waiters>>]_vars

C5_Witness ==
    \E p, q \in Procs :
        /\ Precedes(Configured(p), "QueryGuard", "RateLimiter")
        /\ RejectedBy(p, "QueryGuard")
        /\ pc[p] = "replied"
        /\ reply[q].kind = "Model"
        /\ requests # <<>>

\* C6: the callbacks of a turn run in the configured order, each at most
\* once; the turn's outcome is the Rejection of the first callback that
\* rejects, the model then not being called; the model is called only
\* after all of them returned None.  With the shipped order a message that
\* is over the token ceiling and holds a blocked word gets the token-limit
\* rejection.
C6_OrderedShortCircuit ==
    \A p \in Procs :
        /\ IsPrefix(ran[p], Configured(p))
        /\ \A i \in 1..(Len(ran[p]) - 1) :
               Configured(p)[i] # "RateLimiter" =>
                   Verdict(Configured(p)[i], p) = None
        /\ reply[p].kind = "Rejection" =>
               /\ pc[p] = "replied"
               /\ modelAt[p] = <<>>
               /\ ran[p] # <<>>
               /\ reply[p].by = ran[p][Len(ran[p])]
               /\ reply[p].by # "RateLimiter" =>
                      reply[p] = Verdict(reply[p].by, p)
        /\ pc[p] = "model" \/ reply[p].kind = "Model" =>
               /\ ran[p] = Configured(p)
               /\ \A i \in 1..Len(ran[p]) :
                      ran[p][i] # "RateLimiter" => Verdict(ran[p][i], p) = None
        /\ (pc[p] = "replied" /\ Configured(p) = ShippedChain
            /\ OverCeiling(p) /\ HasBlockedWord(p)) =>
               RejectedBy(p, "TokenGuard")

C6_Witness ==
    \E p, q \in Procs :
        /\ Configured(p) = ShippedChain
        /\ pc[p] = "replied" /\ OverCeiling(p) /\ HasBlockedWord(p)
        /\ RejectedBy(p, "TokenGuard")
        /\ ran[p] = <<"TokenGuard">>
        /\ pc[q] = "replied" /\ ~OverCeiling(q) /\ HasBlockedWord(q)
        /\ RejectedBy(q, "QueryGuard")
        /\ ran[q] = ShippedChain


(***************************************************************************)
(* Properties of the shipped service (SpecApp).                            *)
(***************************************************************************)
\* C7: the guardrail chain is applied before every model call: whenever
\* the model of any agent of the hierarchy is called for a request, the
\* token guard and the query guard have been run on that request for
\* that call.
C7_ChainBeforeEveryModelCall ==
    \A p \in Procs :
        pc[p] = "model" =>
            /\ Invoked(p, "TokenGuard")
            /\ Invoked(p, "QueryGuard")

\* C8: the rate limit is enforced on chat requests before they reach the
\* model: the chat requests that reached the model within the current
\* window never number more than max_requests.
ReachedModelInWindow ==
    {p \in Procs : /\ modelAt[p] # <<>>
                   /\ modelAt[p][1] > clock - WindowTicks}

C8_QuotaKeepsRequestsFromModel ==
    Cardinality(ReachedModelInWindow) <= max_requests

\* C9: the token guard checks each request against the ceiling of the
\* request's own is_document_upload flag: once it has inspected request
\* p, it has rejected p exactly if p's estimate exceeds the ceiling of
\* p's class, naming that class and that ceiling.
OwnVerdict(p) ==
    TokenGuardCall(contents[p], isDoc[p], max_tokens,
                   document_upload_max_tokens)

C9_CeilingOfOwnClass ==
    \A p \in Procs :
        Invoked(p, "TokenGuard") =>
            IF OwnVerdict(p) = None
            THEN ~RejectedBy(p, "TokenGuard")
            ELSE reply[p] = OwnVerdict(p)


(***************************************************************************)
(* Properties of the token guard (SpecTok).                                *)
(***************************************************************************)
AppliedCeiling ==
    IF is_document_upload THEN document_upload_max_tokens ELSE max_tokens

TextLen(p) == Len(LatestUserText(contents[p]))

\* C10: with N the ceiling applied, the token guard passes every message
\* of at most 4*N + 3 characters (the next callback or the model is then
\* due) and rejects every message of at least 4*N + 4 characters, the
\* refusal reporting N.
C10_TokenCeilingBoundary ==
    [][\A p \in Procs :
        (AtCallback(p, "TokenGuard") /\ ran'[p] # ran[p]) =>
            /\ TextLen(p) <= 4 * AppliedCeiling + 3 =>
                   /\ reply'[p].kind # "Rejection"
                   /\ pc'[p] = "callbacks"
            /\ TextLen(p) >= 4 * AppliedCeiling + 4 =>
                   /\ RejectedBy(p, "TokenGuard")'
                   /\ reply'[p].limit = AppliedCeiling
                   /\ pc'[p] = "replied"]_vars

C10_Witness ==
    \E p, q \in Procs :
        /\ RejectedBy(p, "TokenGuard")
        /\ reply[p].limit >= 1
        /\ TextLen(p) = 4 * reply[p].limit + 4
        /\ reply[q].kind = "Model"
        /\ TextLen(q) >= 4

\* C11: the token guard compares the estimate with
\* document_upload_max_tokens in document mode and with max_tokens
\* otherwise, and a refusal names that class and that ceiling; hence a
\* message whose estimate lies in (max_tokens, document_upload_max_tokens]
\* is rejected as a direct message and accepted as a document upload.
C11_CeilingByClass ==
    [][\A p \in Procs :
        (AtCallback(p, "TokenGuard") /\ ran'[p] # ran[p]) =>
            LET est == TextLen(p) \div 4
                rejected == RejectedBy(p, "TokenGuard")'
            IN  /\ is_document_upload =>
                       /\ rejected <=> est > document_upload_max_tokens
                       /\ rejected =>
                              /\ reply'[p].limit = document_upload_max_tokens
                              /\ reply'[p].query_type = "document upload"
                /\ ~is_document_upload =>
                       /\ rejected <=> est > max_tokens
                       /\ rejected =>
                              /\ reply'[p].limit = max_tokens
                              /\ reply'[p].query_type = "direct message"
                /\ (max_tokens < est /\ est <= document_upload_max_tokens) =>
                       (rejected <=> ~is_document_upload)]_vars

C11_Witness ==
    \E p, q \in Procs :
        /\ contents[p] = contents[q]
        /\ max_tokens < TextLen(p) \div 4
        /\ TextLen(p) \div 4 <= document_upload_max_tokens
        /\ RejectedBy(p, "TokenGuard")
        /\ reply[p].limit = max_tokens
        /\ reply[p].query_type = "direct message"
        /\ reply[q].kind = "Model"
        /\ ran[q] = <<"TokenGuard">>


(***************************************************************************)
(* SpecKw: one QueryGuard as the only callback, for every short list of    *)
(* short blocked words and every short message over a two-letter alphabet  *)
(* in both cases.                                                          *)
(***************************************************************************)
MaxKwLen == 3          \* longest message drawn
MaxKwWordLen == 2      \* longest blocked word drawn
MaxKwWords == 2        \* longest blocked-word list drawn

KwAlphabet == {"a", "A", "b"}

KwTexts == UNION {[1..n -> KwAlphabet] : n \in 0..MaxKwLen}

KwWords == UNION {[1..n -> KwAlphabet] : n \in 1..MaxKwWordLen}

KwWordLists == UNION {[1..n -> KwWords] : n \in 0..MaxKwWords}

InitKw ==
    /\ max_requests = 1
    /\ time_window = 1
    /\ max_tokens = ShippedMaxTokens
    /\ document_upload_max_tokens = DefaultDocumentUploadMaxTokens
    /\ blocked_words \in KwWordLists
    /\ before_model_callback = [a \in {"TestAgent"} |-> <<"QueryGuard">>]
    /\ InitGuards
    /\ \E t \in KwTexts : InitProcs({UserTurn(t)}, {FALSE}, "TestAgent")

NextKw ==
    \/ \E p \in Procs : LlmCall(p, "TestAgent")
    \/ \E p \in Procs : CallQueryGuard(p)
    \/ \E p \in Procs : ModelCall(p)
    \/ \E p \in Procs : ModelReturn(p)

SpecKw == InitKw /\ [][NextKw]_vars

(***************************************************************************)
(* Properties of the keyword filter (SpecKw).                              *)
(***************************************************************************)
\* a and b are the same character, or the two cases of one letter
SameIgnoringCase(a, b) ==
    \/ a = b
    \/ \E i \in 1..Len(LowerCase) : {a, b} = {LowerCase[i], UpperCase[i]}

\* some stretch of text spells w, case ignored
OccursIgnoringCase(text, w) ==
    \E i \in 0..(Len(text) - Len(w)) :
        \A j \in 1..Len(w) : SameIgnoringCase(text[i + j], w[j])

\* C12: QueryGuard rejects iff some blocked word occurs in the latest user
\* text as a substring, case ignored: every casing of a blocked word inside
\* other text is rejected, a text with none of the words passes (None), and
\* an empty blocked-word list passes every request.
C12_RejectsIffBlockedSubstring ==
    [][\A p \in Procs :
        (AtCallback(p, "QueryGuard") /\ ran'[p] # ran[p]) =>
            LET text == LatestUserText(contents[p])
                hit == \E i \in 1..Len(blocked_words) :
                           OccursIgnoringCase(text, blocked_words[i])
            IN  /\ hit <=> RejectedBy(p, "QueryGuard")'
                /\ hit => pc'[p] = "replied"
                /\ ~hit => (pc'[p] = "callbacks" /\ reply'[p] = reply[p])
                /\ blocked_words = <<>> => ~RejectedBy(p, "QueryGuard")']_vars

\* a blocked word was found in another casing than written, inside a
\* longer text
C12_Witness ==
    \E p \in Procs :
        LET text == LatestUserText(contents[p])
        IN  /\ RejectedBy(p, "QueryGuard")
            /\ pc[p] = "replied"
            /\ ~Contains(text, reply[p].kw)
            /\ Len(text) > Len(reply[p].kw)


\* the indices of the blocked words that occur in text, case ignored
Occurring(text) ==
    {i \in 1..Len(blocked_words) : OccursIgnoringCase(text, blocked_words[i])}

\* where in text the word w first occurs, case ignored
FirstOccurrence(text, w) ==
    CHOOSE i \in 0..(Len(text) - Len(w)) :
        /\ \A j \in 1..Len(w) : SameIgnoringCase(text[i + j], w[j])
        /\ \A h \in 0..(i - 1) :
               \E j \in 1..Len(w) : ~SameIgnoringCase(text[h + j], w[j])

\* C25: when blocked words occur in the inspected text, the refusal names
\* the one that comes first in the configured list - wherever the words
\* stand in the text - spelled as configured; the words after it have no
\* part in the result.
C25_FirstInListOrder ==
    [][\A p \in Procs :
        (AtCallback(p, "QueryGuard") /\ ran'[p] # ran[p]) =>
            LET hits == Occurring(LatestUserText(contents[p]))
            IN  hits # {} =>
                    /\ RejectedBy(p, "QueryGuard")'
                    /\ \E k \in hits :
                           /\ \A i \in hits : k <= i
                           /\ reply'[p].kw = blocked_words[k]
                           /\ reply'[p] =
                                  QueryGuardCall(SubSeq(blocked_words, 1, k),
                                                 contents[p])]_vars

\* two blocked words occur, the one listed first stands later in the text
\* and in another casing than configured, and the refusal names it as
\* configured
C25_Witness ==
    \E p \in Procs :
        LET text == LatestUserText(contents[p])
        IN  /\ RejectedBy(p, "QueryGuard")
            /\ Len(blocked_words) = 2
            /\ Occurring(text) = {1, 2}
            /\ FirstOccurrence(text, blocked_words[2]) < FirstOccurrence(text, blocked_words[1])
            /\ reply[p].kw = blocked_words[1]
            /\ ~Contains(text, blocked_words[1])


(***************************************************************************)
(* SpecFn: one FunctionGuard with rules for at most one tool, asked about  *)
(* calls of that tool and of another one, with every small choice of       *)
(* blocked values and of arguments.                                        *)
(***************************************************************************)
MaxFnLen == 2           \* longest blocked value or argument value drawn
MaxFnBlocked == 1       \* longest list of blocked values drawn

FnTools == {"search_web", "get_weather"}
FnConfigured == {"search_web"}
FnParams == {"query", "location"}
FnAlphabet == {"a", "A"}

FnTexts == UNION {[1..n -> FnAlphabet] : n \in 1..MaxFnLen}

\* argument values: the strings, and a value that is not a string
FnValues ==
    {[str |-> TRUE, v |-> t] : t \in FnTexts} \cup {[str |-> FALSE, v |-> <<>>]}

FnBlocked == {[str |-> TRUE, v |-> t] : t \in FnTexts}

FnBlockedLists == UNION {[1..n -> FnBlocked] : n \in 0..MaxFnBlocked}

FnParamRules == UNION {[D -> FnBlockedLists] : D \in SUBSET FnParams}

FnRules == UNION {[D -> FnParamRules] : D \in SUBSET FnConfigured}

FnCalls ==
    {[name |-> f, arguments |-> a] :
        f \in FnTools, a \in UNION {[D -> FnValues] : D \in SUBSET FnParams}}

InitFn ==
    /\ max_requests = 1
    /\ time_window = 1
    /\ max_tokens = ShippedMaxTokens
    /\ document_upload_max_tokens = DefaultDocumentUploadMaxTokens
    /\ blocked_words = <<>>
    /\ before_model_callback = [a \in {"TestAgent"} |-> <<>>]
    /\ blocked_params \in FnRules
    /\ function_call \in FnCalls
    /\ fnpc = "idle"
    /\ allowed = TRUE
    /\ NoResponses
    /\ NoMemory
    /\ requests = <<>>
    /\ lock = NoHolder
    /\ waiters = <<>>
    /\ is_document_upload = FALSE
    /\ clock = 0
    /\ last = NoDecision
    /\ nDecided = 0
    /\ firstAt = 0
    /\ nAdmitted = 0
    /\ rejections = {}
    /\ InitProcs({<<>>}, {FALSE}, "TestAgent")

NextFn == CallFunctionGuard

SpecFn == InitFn /\ [][NextFn]_vars

(***************************************************************************)
(* Properties of the function guard (SpecFn).                              *)
(***************************************************************************)
\* a and b are the same text, case ignored
EqualIgnoringCase(a, b) ==
    Len(a) = Len(b) /\ \A j \in 1..Len(a) : SameIgnoringCase(a[j], b[j])

\* the call gives a constrained parameter a string that is, case ignored
\* and as a whole, one of the parameter's blocked values
HasBlockedArgument ==
    /\ function_call.name \in DOMAIN blocked_params
    /\ \E param \in DOMAIN blocked_params[function_call.name] :
           /\ param \in DOMAIN function_call.arguments
           /\ function_call.arguments[param].str
           /\ \E i \in 1..Len(blocked_params[function_call.name][param]) :
                  EqualIgnoringCase(function_call.arguments[param].v,
                                    blocked_params[function_call.name][param][i].v)

\* C13: FunctionGuard answers False iff the called tool has rules and some
\* constrained argument present in the call is a string equal, case ignored
\* and as a whole value, to one of its blocked values; a tool without rules
\* is allowed, an absent constrained argument never blocks, and a value
\* that only contains a blocked value is allowed.
C13_BlockedIffWholeValue ==
    fnpc = "returned" =>
        /\ allowed <=> ~HasBlockedArgument
        /\ function_call.name \notin DOMAIN blocked_params => allowed

\* a call refused for an argument written in another case than any of the
\* parameter's blocked values
C13_Witness ==
    /\ fnpc = "returned"
    /\ ~allowed
    /\ \E param \in DOMAIN function_call.arguments :
           /\ param \in DOMAIN blocked_params[function_call.name]
           /\ \A i \in 1..Len(blocked_params[function_call.name][param]) :
                  function_call.arguments[param].v #
                      blocked_params[function_call.name][param][i].v


(***************************************************************************)
(* Properties of the rate limiter's configuration (SpecRL).                *)
(***************************************************************************)
Inspecting(p) == pc[p] \in {"rl_wait", "rl_locked", "rl_check", "rl_reject", "rl_append"}

Raised(p) == pc[p] = "failed" \/ reply[p].kind = "IndexError"

\* C14: a RateLimiter with max_requests = 0 refuses every request: each of
\* its decisions, the first one on the empty deque included, is a
\* Rejection, and no inspection raises.
C14_ZeroQuotaRejectsAll ==
    max_requests = 0 =>
        /\ last.outcome \in {"none", "deciding", "Rejection"}
        /\ \A p \in Procs : ~Raised(p)
        /\ nAdmitted = 0

\* C15: a RateLimiter with a negative max_requests is refused when it is
\* constructed: no request is ever inspected by one, and no inspection
\* raises because of the quota.
C15_MisconfigurationFailsFast ==
    max_requests < 0 =>
        \A p \in Procs : ~Inspecting(p) /\ ~Raised(p)


(***************************************************************************)
(* SpecRLFair: the RateLimiter of SpecRL with requests that may also be    *)
(* cancelled, run by an event loop that sooner or later resumes every      *)
(* coroutine that can take its next step of the inspection.  Each request  *)
(* slot carries one request.                                               *)
(***************************************************************************)
InitRLFair ==
    /\ InitRL
    /\ max_requests <= 1
    /\ time_window = 1

RL_Step(p) ==
    \/ RL_Wake(p)
    \/ RL_Trim(p)
    \/ RL_Check(p)
    \/ RL_Reject(p)
    \/ RL_Append(p)

NextRLFair ==
    \/ Tick
    \/ \E p \in Procs : LlmCall(p, "TestAgent")
    \/ \E p \in Procs : CallRateLimiter(p)
    \/ \E p \in Procs : RL_Step(p)
    \/ \E p \in Procs : Cancel(p)
    \/ \E p \in Procs : ModelCall(p)
    \/ \E p \in Procs : ModelReturn(p)

SpecRLFair ==
    /\ InitRLFair
    /\ [][NextRLFair]_vars
    /\ \A p \in Procs : WF_vars(RL_Step(p))

\* C16: the lock is held only by a request inside the with block - it is
\* free again after an admission, a refusal, an exception raised in the
\* block and a cancellation - and every request queued on the lock leaves
\* the inspection with a decision (or cancelled itself).
C16_LockAlwaysReleased ==
    /\ [](\A p \in Procs : lock = p => InCriticalSection(p))
    /\ [](lock \in Procs \cup {NoHolder})
    /\ \A p \in Procs : (pc[p] = "rl_wait") ~> ~Inspecting(p)

\* one request was cancelled during its inspection, another took the
\* latest decision, and the lock is free
C16_Witness ==
    \E p, q \in Procs :
        /\ p # q
        /\ pc[p] = "cancelled"
        /\ Invoked(q, "RateLimiter")
        /\ pc[q] \in {"replied", "failed", "model"}
        /\ last.proc = q /\ HasDecided
        /\ lock = NoHolder


\* C17: with max_requests >= 1, after a refusal taken at reading now that
\* reported wait seconds, and with no admission since, an inspection whose
\* clock reading is at least now + wait is admitted.
C17_AdmittedAfterReportedWait ==
    [][\A p \in Procs :
        (/\ InCriticalSection(p)
         /\ nDecided' = nDecided + 1
         /\ max_requests >= 1
         /\ \E r \in rejections :
                now[p] >= r.now + r.wait * TicksPerSecond)
        => (last'.outcome = "None" /\ pc'[p] = "callbacks")]_vars

\* a request refused earlier with a wait is followed, with no admission in
\* between, by an inspection that reads the clock past that wait and is
\* about to append its timestamp
C17_Witness ==
    \E p \in Procs :
        /\ max_requests >= 1
        /\ pc[p] = "rl_append"
        /\ \E r \in rejections :
               /\ r.wait >= 1
               /\ now[p] >= r.now + r.wait * TicksPerSecond

(***************************************************************************)
(* SpecHist: the three guards in one callback list, put before requests    *)
(* whose message history is missing or empty, has no user entry, has a     *)
(* user entry without parts or without text, or has its text in an older   *)
(* user entry only; the quota may be zero.                                 *)
(***************************************************************************)
HistChain == <<"TokenGuard", "QueryGuard", "RateLimiter">>

ModelTurn(text) == <<[role |-> "model", parts |-> <<text>>]>>

Histories ==
    { <<>>,
      ModelTurn(<<"o","k">>),
      <<[role |-> "user", parts |-> <<>>]>>,
      UserTurn(<<>>),
      UserTurn(<<"s","e","x">>) \o ModelTurn(<<"o","k">>) \o UserTurn(<<>>),
      UserTurn(<<"h","i">>),
      UserTurn(Repeat("y", 2 * chars_per_token)) }

InitHist ==
    /\ max_requests \in 0..1
    /\ time_window = 1
    /\ max_tokens = 1
    /\ document_upload_max_tokens = 3
    /\ blocked_words = ChainBlockedWords
    /\ before_model_callback = [a \in {"TestAgent"} |-> HistChain]
    /\ InitGuards
    /\ InitProcs(Histories, {FALSE}, "TestAgent")

SpecHist == InitHist /\ [][NextChain]_vars

\* C18: every inspection by QueryGuard, TokenGuard and RateLimiter ends
\* with None or with a Rejection and never raises, whatever the message
\* history - missing, empty, without a user entry, or with a latest user
\* entry that has no text - and a history in which no user entry has text
\* is inspected as the empty text.
C18_InspectionsNeverRaise ==
    \A p \in Procs :
        /\ ~Raised(p)
        /\ reply[p].kind \in {"Pending", "Rejection", "Model"}
        /\ (\A i \in 1..Len(contents[p]) :
                contents[p][i].role = "user" =>
                    (contents[p][i].parts = <<>> \/ contents[p][i].parts[1] = <<>>))
           => ~RejectedBy(p, "TokenGuard") /\ ~RejectedBy(p, "QueryGuard")


(***************************************************************************)
(* SpecHttp: the HTTP layer of api.py - concurrent POST /chat requests,    *)
(* with or without a session id, whose model call may fail, and DELETE     *)
(* /session requests for the sessions of the same users.                   *)
(***************************************************************************)
HttpTexts == { <<"h","i">>, <<"D","r","u","g","s">> }

HttpUsers == { <<"u","1">>, <<"u","2">> }

HttpSessionIds == { <<"s","1">> }

InitHttp ==
    /\ max_requests = 1
    /\ time_window = SecondsPerMinute
    /\ max_tokens = ShippedMaxTokens
    /\ document_upload_max_tokens = DefaultDocumentUploadMaxTokens
    /\ blocked_words = ShippedBlockedWords
    /\ before_model_callback = ShippedCallbacks
    /\ InitGuards
    /\ pc = [p \in Procs |-> "http"]
    /\ agent = [p \in Procs |-> Orchestrator]
    /\ idx = [p \in Procs |-> 1]
    /\ now = [p \in Procs |-> 0]
    /\ contents \in [Procs -> {UserTurn(t) : t \in HttpTexts}]
    /\ isDoc = [p \in Procs |-> FALSE]
    /\ reply = [p \in Procs |-> Pending]
    /\ ran = [p \in Procs |-> <<>>]
    /\ modelAt = [p \in Procs |-> <<>>]
    /\ user_id \in [Procs -> HttpUsers]
    /\ session_id \in [Procs -> HttpSessionIds \cup {NoId}]
    /\ sessions = {}
    /\ service = {}
    /\ nInsp = 0

NextHttp ==
    \/ \E p \in Procs : ChatBegin(p)
    \/ \E p \in Procs : LlmCall(p, Orchestrator)
    \/ \E p \in Procs : CallTokenGuard(p)
    \/ \E p \in Procs : CallQueryGuard(p)
    \/ \E p \in Procs : ModelCall(p)
    \/ \E p \in Procs : ModelReturn(p)
    \/ \E p \in Procs : ModelRaises(p)
    \/ \E p \in Procs : ChatReturn(p)
    \/ \E p \in Procs : ChatExcept(p)
    \/ \E u \in HttpUsers, sid \in HttpSessionIds : DeleteSession(u, sid)

SpecHttp == InitHttp /\ [][NextHttp]_vars

\* C19: DELETE /session/{user_id}/{session_id} with key user_id_session_id
\* in the session store removes exactly that entry and answers 'Session
\* <key> cleared'; with the key absent it leaves the store as it is and
\* answers 'Session not found'; the status is 200 either way.
C19_DeleteSession ==
    [][delete_response'.n # delete_response.n =>
        LET key == delete_response'.session_key
        IN  /\ delete_response'.status = 200
            /\ IF key \in sessions
               THEN /\ sessions' = sessions \ {key}
                    /\ delete_response'.message = "Session {session_key} cleared"
               ELSE /\ sessions' = sessions
                    /\ delete_response'.message = "Session not found"]_vars

\* C20: when the agent query of a POST /chat raises an exception that is
\* not an HTTPException, the answer has status 200 and the fallback apology
\* as its response text, not an error status or the exception's text.
C20_FallbackApology ==
    \A p \in Procs :
        (pc[p] = "done" /\ reply[p].kind = "Exception") =>
            /\ response[p].status = 200
            /\ response[p].response =
                   "I'm sorry, but I'm having trouble processing that request."


(***************************************************************************)
(* SpecMem: calls of _store_user_memory and _get_user_memory_for_agent for *)
(* two users, with normalized profiles (a "personal" or "academic" key,    *)
(* each None, a string or a dict), free-form profiles, and every kind of   *)
(* fields argument.                                                        *)
(***************************************************************************)
MemUsers == {"u1", "u2"}

MemNames == {"Jane", "John"}

\* the values of a "personal" key: None, a string, a dict whose "name" is
\* missing, None or a string
MemPersonal ==
    {NoneV, Str("Jane"), Dict(EmptyDict), Dict([k \in {"name"} |-> NoneV])}
    \cup {Dict([k \in {"name"} |-> Str(n)]) : n \in MemNames}

MemAcademic ==
    {NoneV, Dict([k \in {"declared_major"} |-> Str("CS")])}

MemNormalized ==
    {[k \in {"personal"} |-> v] : v \in MemPersonal}
    \cup {[k \in {"academic"} |-> v] : v \in MemAcademic}
    \cup {[k \in {"personal", "academic"} |->
              IF k = "personal" THEN v ELSE w] : v \in MemPersonal, w \in MemAcademic}

MemFreeForm ==
    {EmptyDict} \cup {[k \in {"name"} |-> Str(n)] : n \in MemNames}

MemProfiles == MemNormalized \cup MemFreeForm

MemFields ==
    {NoneV, List(<<>>), List(<<"personal">>), List(<<"academic", "meta">>)}

InitMem ==
    /\ max_requests = 1
    /\ time_window = 1
    /\ max_tokens = ShippedMaxTokens
    /\ document_upload_max_tokens = DefaultDocumentUploadMaxTokens
    /\ blocked_words = <<>>
    /\ before_model_callback = [a \in {"TestAgent"} |-> <<>>]
    /\ InitGuards
    /\ InitProcs({<<>>}, {FALSE}, "TestAgent")

NextMem ==
    \/ \E u \in MemUsers, p \in MemProfiles : store_user_memory(u, p)
    \/ \E u \in MemUsers, f \in MemFields : get_user_memory_for_agent(u, f)

SpecMem == InitMem /\ [][NextMem]_vars

(***************************************************************************)
(* Properties of the user-memory store (SpecMem).                          *)
(***************************************************************************)
IsNormalized(p) == "personal" \in DOMAIN p \/ "academic" \in DOMAIN p

\* every value of p that is not None is in new, dict by dict
RECURSIVE Holds(_, _)
Holds(new, p) ==
    \A k \in DOMAIN p :
        p[k].t # "none" =>
            /\ k \in DOMAIN new
            /\ IF p[k].t = "dict" /\ new[k].t = "dict"
               THEN Holds(new[k].v, p[k].v)
               ELSE new[k] = p[k]

\* every value of old that p does not replace by a value other than None
\* is in new as it was, dict by dict
RECURSIVE Keeps(_, _, _)
Keeps(new, old, p) ==
    \A k \in DOMAIN old :
        /\ k \in DOMAIN new
        /\ IF k \notin DOMAIN p \/ p[k].t = "none"
           THEN new[k] = old[k]
           ELSE (old[k].t = "dict" /\ p[k].t = "dict") =>
                    (new[k].t = "dict" /\ Keeps(new[k].v, old[k].v, p[k].v))

Stored(store, u) == u \in DOMAIN store /\ DOMAIN store[u] # {}

\* C21: after _store_user_memory(u, p) returned True for a normalized p,
\* the profile of u holds every value of p that is not None, merged over
\* what was stored (a None replaces nothing, other keys and other users
\* keep their values), and that is what _get_user_memory_for_agent(u)
\* returns; with fields F it returns a profile with exactly the keys of F;
\* for a user with nothing stored the profile is null.
C21_StoreGetRoundTrip ==
    [][/\ (memory_call'.op = "store" /\ memory_call' # memory_call
           /\ memory_call'.result /\ IsNormalized(memory_call'.profile)) =>
              LET u == memory_call'.user_id
                  p == memory_call'.profile
                  old == IF u \in DOMAIN memory_store
                         THEN memory_store[u] ELSE EmptyDict
              IN  /\ DOMAIN memory_store' = DOMAIN memory_store \cup {u}
                  /\ \A w \in DOMAIN memory_store :
                         w # u => memory_store'[w] = memory_store[w]
                  /\ Holds(memory_store'[u], p)
                  /\ Keeps(memory_store'[u], old, p)
       /\ (memory_call'.op = "get" /\ memory_call' # memory_call) =>
              LET u == memory_call'.user_id
                  F == memory_call'.fields
                  profile == memory_call'.result.profile
              IN  /\ memory_store' = memory_store
                  /\ memory_call'.result.user_id = u
                  /\ IF ~Stored(memory_store, u) THEN profile = NoneV
                     ELSE IF F.t = "none" THEN profile = Dict(memory_store[u])
                     ELSE /\ profile.t = "dict"
                          /\ DOMAIN profile.v = {F.v[i] : i \in 1..Len(F.v)}
                          /\ \A k \in DOMAIN profile.v :
                                 profile.v[k] = GetKey(memory_store[u], k)]_vars


(***************************************************************************)
(* The reported wait (SpecRL).                                             *)
(***************************************************************************)
\* ceil(ticks / TicksPerSecond) for ticks >= 0
CeilOfTicks(ticks) == (ticks + TicksPerSecond - 1) \div TicksPerSecond

\* window_seconds - (now - t0) of the latest refusal, in ticks
Remaining == WindowTicks - (last.now - last.post[1])

\* C22: a refusal at time now with oldest remaining timestamp t0 reports
\* ceil(window_seconds - (now - t0)) + 1 seconds, for whole and for
\* fractional elapsed times now - t0.
C22_WaitIsCeilPlusOne ==
    last.outcome = "Rejection" => last.wait = CeilOfTicks(Remaining) + 1

\* C22, as the code has it: the refusal reports
\* floor(window_seconds - (now - t0)) + 1 seconds, which is the ceiling
\* plus one exactly when the elapsed time is a whole number of seconds
\* (window_seconds + 1 when nothing has elapsed) and one second less
\* otherwise.
C22_WaitIsFloorPlusOne ==
    last.outcome = "Rejection" =>
        /\ Remaining > 0
        /\ last.wait = (Remaining \div TicksPerSecond) + 1
        /\ last.now = last.post[1] => last.wait = time_window + 1
        /\ last.wait = IF Remaining % TicksPerSecond = 0
                       THEN CeilOfTicks(Remaining) + 1
                       ELSE CeilOfTicks(Remaining)

\* a refusal taken a fraction of a second after the oldest remaining
\* admission
C22_Witness ==
    /\ last.outcome = "Rejection"
    /\ (last.now - last.post[1]) % TicksPerSecond # 0


(***************************************************************************)
(* The stored timestamps (SpecRL).                                         *)
(***************************************************************************)
\* the entries of reqs that are inside the window at time n, in order
FreshOf(reqs, n) ==
    LET Fresh(t) == t > n - WindowTicks
    IN  SelectSeq(reqs, Fresh)

\* C23: when an inspection at time now compares the count with the quota,
\* and after it has admitted or refused, no stored timestamp t with
\* t <= now - window_seconds remains and every timestamp with
\* t > now - window_seconds stored before the inspection is still stored.
C23_StalePurgedFreshKept ==
    /\ \A p \in Procs :
           pc[p] \in {"rl_check", "rl_reject", "rl_append"} =>
               /\ last.proc = p /\ last.now = now[p]
               /\ \A i \in 1..Len(requests) :
                      requests[i] > now[p] - WindowTicks
               /\ requests = FreshOf(last.pre, now[p])
    /\ HasDecided =>
           /\ \A i \in 1..Len(last.post) :
                  last.post[i] > last.now - WindowTicks
           /\ last.post = IF last.outcome = "None"
                          THEN Append(FreshOf(last.pre, last.now), last.now)
                          ELSE FreshOf(last.pre, last.now)

\* an inspection that found a stale and a fresh timestamp stored has
\* taken its decision
C23_Witness ==
    /\ HasDecided
    /\ \E i, j \in 1..Len(last.pre) :
           /\ last.pre[i] <= last.now - WindowTicks
           /\ last.pre[j] > last.now - WindowTicks


\* reqs is old with some entries taken from the front
IsSuffix(reqs, old) ==
    /\ Len(reqs) <= Len(old)
    /\ reqs = SubSeq(old, Len(old) - Len(reqs) + 1, Len(old))

\* C24: under every interleaving of inspections with a non-decreasing
\* clock the stored timestamps are ordered oldest first and hold exactly
\* one entry per admitted request that has not been purged: an admission
\* adds its own timestamp once, at the end; a refusal adds nothing; every
\* other step only removes entries from the front.
C24_OnePerAdmittedOldestFirst ==
    /\ [](\A i, j \in 1..Len(requests) : i < j => requests[i] <= requests[j])
    /\ [](Len(requests) <= nAdmitted)
    /\ [][\/ /\ nAdmitted' = nAdmitted + 1
             /\ \E p \in Procs : /\ pc[p] = "rl_append"
                                 /\ requests' = Append(requests, now[p])
          \/ /\ nAdmitted' = nAdmitted
             /\ nDecided' = nDecided + 1
             /\ requests' = requests
          \/ /\ nAdmitted' = nAdmitted
             /\ nDecided' = nDecided
             /\ IsSuffix(requests', requests)]_vars

\* two admitted requests are stored with different timestamps after an
\* older one was purged and a later request was refused
C24_Witness ==
    /\ Len(requests) = 2
    /\ requests[1] < requests[2]
    /\ nAdmitted > 2
    /\ last.outcome = "Rejection"


\* the clock reading from which a full sequence reqs has a free slot:
\* the reading at which the entry max_requests from the end turns stale
AdmissibleFrom(reqs) == reqs[Len(reqs) - max_requests + 1] + WindowTicks

\* C28: a refused inspection appends no timestamp and does not lengthen
\* the stored sequence, so refusals during a lockout leave the instant at
\* which the next request becomes admissible where the admitted requests'
\* timestamps put it.
C28_RefusalAddsNothing ==
    [][(nDecided' = nDecided + 1 /\ last'.outcome = "Rejection") =>
           /\ requests' = requests
           /\ last'.post = requests
           /\ IsSuffix(last'.post, last'.pre)
           /\ Len(requests') >= max_requests
           /\ AdmissibleFrom(requests') = AdmissibleFrom(last'.pre)
           /\ \A r \in rejections :
                  AdmissibleFrom(requests') <= r.now + r.wait * TicksPerSecond]_vars

\* a second refusal in one lockout
C28_Witness ==
    /\ last.outcome = "Rejection"
    /\ Cardinality(rejections) >= 2
    /\ max_requests >= 1


(***************************************************************************)
(* SpecScan: TokenGuard and QueryGuard put before every short message      *)
(* history whose entries are user or model entries with an empty, a short, *)
(* a blocked or an over-long text, or user entries without parts (as the   *)
(* function responses of a tool exchange).                                 *)
(***************************************************************************)
MaxHistLen == 3        \* longest message history drawn

ScanMaxTokens == 1

ScanTexts ==
    { <<>>,
      <<"h","i">>,
      <<"s","e","x">>,
      Repeat("y", chars_per_token * (ScanMaxTokens + 1)) }

ScanEntries ==
    {[role |-> r, parts |-> <<t>>] : r \in {"user", "model"}, t \in ScanTexts}
    \cup {[role |-> "user", parts |-> <<>>]}

ScanHistories == UNION {[1..n -> ScanEntries] : n \in 0..MaxHistLen}

ScanChains ==
    { <<"TokenGuard">>, <<"QueryGuard">>, <<"QueryGuard", "TokenGuard">> }

InitScan ==
    /\ max_requests = 1
    /\ time_window = 1
    /\ max_tokens = ScanMaxTokens
    /\ document_upload_max_tokens = DefaultDocumentUploadMaxTokens
    /\ blocked_words = ChainBlockedWords
    /\ before_model_callback \in [{"TestAgent"} -> ScanChains]
    /\ InitGuards
    /\ \E c \in ScanHistories : InitProcs({c}, {FALSE}, "TestAgent")

NextScan ==
    \/ \E p \in Procs : LlmCall(p, "TestAgent")
    \/ \E p \in Procs : CallTokenGuard(p)
    \/ \E p \in Procs : CallQueryGuard(p)
    \/ \E p \in Procs : ModelCall(p)
    \/ \E p \in Procs : ModelReturn(p)

SpecScan == InitScan /\ [][NextScan]_vars

\* the entry is a user entry whose first part has text
HasUserText(e) == e.role = "user" /\ e.parts # <<>> /\ e.parts[1] # <<>>

\* the text of the last entry of c that is a user entry with text
SelectedText(c) ==
    LET S == {i \in 1..Len(c) : HasUserText(c[i])}
    IN  IF S = {} THEN <<>>
        ELSE c[CHOOSE i \in S : \A j \in S : j <= i].parts[1]

\* C26: what QueryGuard and TokenGuard decide is decided by the text of
\* the most recent user entry with non-empty text, the empty text if there
\* is none: model entries, user entries without text and older user
\* entries have no part in the decision.
C26_LatestUserTextDecides ==
    [][\A p \in Procs :
        LET text == SelectedText(contents[p])
        IN  /\ (AtCallback(p, "QueryGuard") /\ ran'[p] # ran[p]) =>
                   (RejectedBy(p, "QueryGuard")' <=>
                        \E i \in 1..Len(blocked_words) :
                            OccursIgnoringCase(text, blocked_words[i]))
            /\ (AtCallback(p, "TokenGuard") /\ ran'[p] # ran[p]) =>
                   (RejectedBy(p, "TokenGuard")' <=>
                        Len(text) \div chars_per_token > max_tokens)]_vars

\* a request passed both guards on a short user text although a later
\* model entry holds an over-long text and an older user entry a blocked
\* word
C26_Witness ==
    \E p \in Procs :
        LET c == contents[p]
        IN  /\ Len(c) = 3
            /\ c[1] = [role |-> "user", parts |-> << <<"s","e","x">> >>]
            /\ c[2] = [role |-> "user", parts |-> << <<"h","i">> >>]
            /\ c[3].role = "model" /\ Len(c[3].parts[1]) > chars_per_token
            /\ ran[p] = <<"QueryGuard", "TokenGuard">>
            /\ reply[p].kind = "Model"


(***************************************************************************)
(* What an inspection leaves alone (SpecChain).                            *)
(***************************************************************************)
\* request p runs the callback called name in this step
Runs(p, name) == AtCallback(p, name) /\ ran'[p] # ran[p]

\* C27: an inspection by QueryGuard or by TokenGuard, passed or refused,
\* leaves the blocked words, both token ceilings, the document-mode flag
\* and the RateLimiter's timestamps as they were; running the callback
\* list changes no guard's state either, so the timestamps (with their
\* lock) change in RateLimiter inspections only.
C27_TextGuardsChangeNothing ==
    [][/\ \A p \in Procs :
              (Runs(p, "QueryGuard") \/ Runs(p, "TokenGuard")) =>
                  /\ UNCHANGED <<blocked_words, max_tokens,
                                 document_upload_max_tokens,
                                 is_document_upload, requests>>
                  /\ UNCHANGED <<max_requests, time_window, lock, waiters,
                                 before_model_callback>>
       /\ rlVars' # rlVars =>
              \E p \in Procs :
                  \/ Runs(p, "RateLimiter")
                  \/ InCriticalSection(p)
                  \/ pc[p] = "rl_wait"
       /\ UNCHANGED <<cfgVars, is_document_upload>>]_vars

\* with a timestamp stored, one request was refused by QueryGuard and
\* another by TokenGuard, each after passing the other text guard or
\* RateLimiter
C27_Witness ==
    \E p, q \in Procs :
        /\ requests # <<>>
        /\ RejectedBy(p, "QueryGuard") /\ Len(ran[p]) >= 2
        /\ RejectedBy(q, "TokenGuard") /\ Len(ran[q]) >= 2


(***************************************************************************)
(* SpecSess: POST /chat and DELETE /session requests whose user ids and    *)
(* session ids hold the separator of the session key, so that two          *)
(* different (user_id, session_id) pairs can spell the same key.           *)
(***************************************************************************)
SessUsers == { <<"a">>, <<"a","_","b">> }

SessSessionIds == { <<"c">>, <<"b","_","c">> }

\* runner.run_async looks the session up in the session service under
\* (user_id, session_id) and raises when there is none
RunWithoutSession(p) ==
    /\ pc[p] = "ready"
    /\ <<user_id[p], session_id[p]>> \notin service
    /\ pc' = [pc EXCEPT ![p] = "failed"]
    /\ reply' = [reply EXCEPT ![p] = Result("Exception", agent[p], <<>>, 0, "", 0)]
    /\ UNCHANGED <<cfgVars, memVars, fnVars, httpVars, apiVars, rlVars, obsVars,
                   is_document_upload, clock, agent, idx, now, contents,
                   isDoc, ran, modelAt, nInsp>>

InitSess ==
    /\ max_requests = 1
    /\ time_window = SecondsPerMinute
    /\ max_tokens = ShippedMaxTokens
    /\ document_upload_max_tokens = DefaultDocumentUploadMaxTokens
    /\ blocked_words = ShippedBlockedWords
    /\ before_model_callback = ShippedCallbacks
    /\ InitGuards
    /\ pc = [p \in Procs |-> "http"]
    /\ agent = [p \in Procs |-> Orchestrator]
    /\ idx = [p \in Procs |-> 1]
    /\ now = [p \in Procs |-> 0]
    /\ contents = [p \in Procs |-> UserTurn(<<"h","i">>)]
    /\ isDoc = [p \in Procs |-> FALSE]
    /\ reply = [p \in Procs |-> Pending]
    /\ ran = [p \in Procs |-> <<>>]
    /\ modelAt = [p \in Procs |-> <<>>]
    /\ user_id \in [Procs -> SessUsers]
    /\ session_id \in [Procs -> SessSessionIds]
    /\ sessions = {}
    /\ service = {}
    /\ nInsp = 0

NextSess ==
    \/ \E p \in Procs : ChatBegin(p)
    \/ \E p \in Procs : RunWithoutSession(p)
    \/ \E p \in Procs : /\ <<user_id[p], session_id[p]>> \in service
                        /\ LlmCall(p, Orchestrator)
    \/ \E p \in Procs : CallTokenGuard(p)
    \/ \E p \in Procs : CallQueryGuard(p)
    \/ \E p \in Procs : ModelCall(p)
    \/ \E p \in Procs : ModelReturn(p)
    \/ \E p \in Procs : ModelRaises(p)
    \/ \E p \in Procs : ChatReturn(p)
    \/ \E p \in Procs : ChatExcept(p)
    \/ \E u \in SessUsers, sid \in SessSessionIds : DeleteSession(u, sid)

SpecSess == InitSess /\ [][NextSess]_vars

\* the (user_id, session_id) pair of request p
Pair(p) == <<user_id[p], session_id[p]>>

\* request p is past the session lookup of chat()
Looked(p) == pc[p] # "http"

\* C29: two different (user_id, session_id) pairs never share an entry of
\* the session store (so neither is taken for the other's session, nor
\* deleted with it), and a chat for a pair has that pair's own backing
\* session created before its first query.
C29_PairsNeverShareEntry ==
    /\ \A p, q \in Procs :
           (Looked(p) /\ Looked(q) /\ Pair(p) # Pair(q)) =>
               SessionKey(user_id[p], session_id[p])
                   # SessionKey(user_id[q], session_id[q])
    /\ \A p \in Procs : Looked(p) => Pair(p) \in service


(***************************************************************************)
(* SpecFnAny: a FunctionGuard whose blocked values and whose arguments are *)
(* of any type - strings, and null and a number beside them.               *)
(***************************************************************************)
MaxAnyBlocked == 2      \* longest list of blocked values drawn

\* the strings "a" and "1"; null and the number 1
FnAnyValues ==
    {[str |-> TRUE, v |-> <<"a">>], [str |-> TRUE, v |-> <<"1">>],
     [str |-> FALSE, v |-> <<>>], [str |-> FALSE, v |-> <<"1">>]}

FnAnyBlockedLists == UNION {[1..n -> FnAnyValues] : n \in 0..MaxAnyBlocked}

FnAnyParamRules == UNION {[D -> FnAnyBlockedLists] : D \in SUBSET FnParams}

FnAnyRules == UNION {[D -> FnAnyParamRules] : D \in SUBSET FnConfigured}

FnAnyCalls ==
    {[name |-> f, arguments |-> a] :
        f \in FnTools, a \in UNION {[D -> FnAnyValues] : D \in SUBSET FnParams}}

InitFnAny ==
    /\ max_requests = 1
    /\ time_window = 1
    /\ max_tokens = ShippedMaxTokens
    /\ document_upload_max_tokens = DefaultDocumentUploadMaxTokens
    /\ blocked_words = <<>>
    /\ before_model_callback = [a \in {"TestAgent"} |-> <<>>]
    /\ blocked_params \in FnAnyRules
    /\ function_call \in FnAnyCalls
    /\ fnpc = "idle"
    /\ allowed = TRUE
    /\ NoResponses
    /\ NoMemory
    /\ requests = <<>>
    /\ lock = NoHolder
    /\ waiters = <<>>
    /\ is_document_upload = FALSE
    /\ clock = 0
    /\ last = NoDecision
    /\ nDecided = 0
    /\ firstAt = 0
    /\ nAdmitted = 0
    /\ rejections = {}
    /\ InitProcs({<<>>}, {FALSE}, "TestAgent")

SpecFnAny == InitFnAny /\ [][NextFn]_vars

\* the constrained arguments of the call that are strings
StringArguments ==
    {param \in Constrained(blocked_params, function_call) :
         function_call.arguments[param].str}

\* C30: an argument whose value is not a string never makes FunctionGuard
\* answer False, even when the same value is among the parameter's blocked
\* values: a call is refused only for a string argument equal, case
\* ignored, to a blocked string, and a call whose constrained arguments
\* are all of other types is allowed.
C30_NonStringNeverBlocks ==
    /\ (fnpc = "returned" /\ ~allowed) =>
           \E param \in StringArguments :
               \E i \in 1..Len(blocked_params[function_call.name][param]) :
                   /\ blocked_params[function_call.name][param][i].str
                   /\ EqualIgnoringCase(
                          function_call.arguments[param].v,
                          blocked_params[function_call.name][param][i].v)
    /\ (fnpc # "idle" /\ StringArguments = {}) =>
           (fnpc = "returned" /\ allowed)

\* a call allowed although an argument that is not a string is listed,
\* the same value, among its parameter's blocked values
C30_Witness ==
    /\ fnpc = "returned"
    /\ allowed
    /\ \E param \in Constrained(blocked_params, function_call) :
           /\ ~function_call.arguments[param].str
           /\ \E i \in 1..Len(blocked_params[function_call.name][param]) :
                  blocked_params[function_call.name][param][i]
                      = function_call.arguments[param]

============================================================================
